---------------------------- MODULE Spec2Model ----------------------------
(***************************************************************************)
(* Model of the content pipeline of src/app/post_generator.py: the text    *)
(* utilities (truncate_under, sanitize_plain, render_output), the LLM      *)
(* output parsers (extract_json, the USED_SOURCES marker), the graph nodes *)
(* (node_search, node_search_companies, node_rank, node_draft,             *)
(* node_verify, node_revise) and the LangGraph wiring of build_graph /     *)
(* run_workflow.                                                           *)
(*                                                                         *)
(* Text is a sequence of one-character strings.  A document's URL is a     *)
(* natural number n standing for the text "w" repeated n times, so that 0  *)
(* is the empty (falsy) URL and distinct numbers are distinct URLs of      *)
(* distinct lengths.                                                       *)
(***************************************************************************)
EXTENDS Integers, Sequences, FiniteSets, TLC

VARIABLES
    pc,               \* node of the graph the run is at
    cfg,              \* immutable inputs of run_workflow
    articles,         \* GraphState["articles"]
    company_articles, \* GraphState["company_articles"]
    selected,         \* GraphState["selected"]
    used_sources,     \* GraphState["used_sources"]
    post,             \* GraphState["post"]
    critique,         \* GraphState["critique"]
    iteration,        \* GraphState["iteration"]
    last,             \* the node that ran last: what the backend answered it,
                      \* the indices it chose, the used_sources it read
    calls,            \* how often each node / the backend has been called
    error,            \* the exception that ended the run, or None
    returned,         \* what run_workflow returned
    rcall,            \* one call of render_output: its arguments and result
    agg,              \* one call of search_companies_web, statement by statement
    fcall             \* one call of a function of its own: arguments and result

vars == <<pc, cfg, articles, company_articles, selected, used_sources, post,
          critique, iteration, last, calls, error, returned,
          rcall, agg, fcall>>

-----------------------------------------------------------------------------
(* Bounds of the model *)

MaxChars == 14        \* max_chars ranges over 0..MaxChars
MaxBodyLen == 3       \* length of a body handed to render_output
MaxTopK == 2          \* top_k ranges over 1..MaxTopK
MaxIterations == 2    \* max_iterations ranges over 0..MaxIterations
MaxFetch == 2         \* max_fetch, and the number of results of the news backend
MaxIndices == 2       \* length of the top_indices list the backend answers
MaxMarker == 2        \* how many numbers follow a USED_SOURCES marker

None == "None"

Min(a, b) == IF a <= b THEN a ELSE b
Max(a, b) == IF a >= b THEN a ELSE b

RECURSIVE SeqsUpTo(_, _)
SeqsUpTo(S, n) ==
    IF n = 0 THEN {<<>>}
    ELSE LET shorter == SeqsUpTo(S, n - 1)
         IN  shorter \cup {Append(s, x) : s \in {t \in shorter : Len(t) = n - 1}, x \in S}

-----------------------------------------------------------------------------
(* Text utilities *)

\* The characters a generated body is made of: a letter, a sentence end,
\* white space, and the character URLs are made of.  None of them is a
\* markdown character.
BodyChars == {"a", ".", "\n", "w"}

IsSpace(c) == c \in {" ", "\n"}

RECURSIVE lstrip(_)
lstrip(s) ==
    IF s = <<>> THEN s
    ELSE IF IsSpace(Head(s)) THEN lstrip(Tail(s)) ELSE s

RECURSIVE rstrip(_)
rstrip(s) ==
    IF s = <<>> THEN s
    ELSE IF IsSpace(s[Len(s)]) THEN rstrip(SubSeq(s, 1, Len(s) - 1)) ELSE s

\* str.strip()
strip(s) == rstrip(lstrip(s))

\* text[:n] for n >= 0
Prefix(s, n) == SubSeq(s, 1, Min(n, Len(s)))

\* str.replace(u, "") for a non-empty u: left to right, non-overlapping
RECURSIVE remove_all(_, _)
remove_all(s, u) ==
    IF Len(s) < Len(u) THEN s
    ELSE IF SubSeq(s, 1, Len(u)) = u
         THEN remove_all(SubSeq(s, Len(u) + 1, Len(s)), u)
         ELSE <<Head(s)>> \o remove_all(Tail(s), u)

\* sep.join(parts)
RECURSIVE join(_, _)
join(parts, sep) ==
    IF parts = <<>> THEN <<>>
    ELSE IF Len(parts) = 1 THEN parts[1]
    ELSE parts[1] \o sep \o join(Tail(parts), sep)

\* "".join(parts)
concat(parts) == join(parts, <<>>)

\* the number of newlines s starts with
RECURSIVE newline_run(_)
newline_run(s) ==
    IF s # <<>> /\ Head(s) = "\n" THEN 1 + newline_run(Tail(s)) ELSE 0

\* re.sub(r"\n{3,}", "\n\n", text)
RECURSIVE collapse_newlines(_)
collapse_newlines(s) ==
    IF s = <<>> THEN s
    ELSE LET n == newline_run(s)
         IN  IF n >= 3 THEN <<"\n", "\n">> \o collapse_newlines(SubSeq(s, n + 1, Len(s)))
             ELSE IF n >= 1 THEN SubSeq(s, 1, n) \o collapse_newlines(SubSeq(s, n + 1, Len(s)))
             ELSE <<Head(s)>> \o collapse_newlines(Tail(s))

\* sanitize_plain on texts over BodyChars: the three markdown substitutions
\* (links, emphasis, back-ticks) match nothing there; what is left is the
\* collapse of blank lines and the strip.
sanitize_plain(text) == strip(collapse_newlines(text))

\* match.end() of the last match of [\.!?] in s, 0 when there is none
last_end(s) ==
    LET ends == {i \in 1..Len(s) : s[i] \in {".", "!", "?"}}
    IN  IF ends = {} THEN 0 ELSE CHOOSE i \in ends : \A j \in ends : j <= i

\* a faulty variant: cuts after the last mark wherever it is
truncate_under_any_mark(text, max_chars) ==
    IF max_chars <= 0 THEN text
    ELSE IF Len(text) <= max_chars THEN text
    ELSE LET trimmed == Prefix(text, max_chars - 1)
             e == last_end(trimmed)
         IN  IF e > 0 THEN strip(Prefix(trimmed, e)) ELSE strip(trimmed)

\* a faulty variant: cuts two characters later
truncate_under_late_cut(text, max_chars) ==
    IF max_chars <= 0 THEN text
    ELSE IF Len(text) <= max_chars THEN text
    ELSE strip(Prefix(text, max_chars + 1))

truncate_under(text, max_chars) ==
    IF max_chars <= 0 THEN text
    ELSE IF Len(text) <= max_chars THEN text
    ELSE LET trimmed == Prefix(text, max_chars - 1)
             e == last_end(trimmed)
         IN  IF e > 0 /\ 10 * e > 6 * max_chars   \* last_end > max_chars * 0.6
             THEN strip(Prefix(trimmed, e))
             ELSE strip(trimmed)

-----------------------------------------------------------------------------
(* Documents and rendering *)

Formats == {"text", "markdown", "html"}

\* the text of URL number n: n characters, empty for 0
UrlText(n) == [i \in 1..n |-> "w"]

Doc(u, t) ==
    [url |-> u, published_at |-> t, company_related |-> None, relevance_score |-> None]

\* [a.get("url") for a in used_sources if a.get("url")]
RECURSIVE source_urls(_)
source_urls(docs) ==
    IF docs = <<>> THEN <<>>
    ELSE IF Head(docs).url # 0
         THEN <<UrlText(Head(docs).url)>> \o source_urls(Tail(docs))
         ELSE source_urls(Tail(docs))

\* for u in urls: body = body.replace(u, "")
RECURSIVE remove_urls(_, _)
remove_urls(body, urls) ==
    IF urls = <<>> THEN body
    ELSE remove_urls(remove_all(body, Head(urls)), Tail(urls))

\* re.split(r"\n\n+", s), cur being the part read so far
RECURSIVE split_paragraphs(_, _)
split_paragraphs(s, cur) ==
    IF s = <<>> THEN <<cur>>
    ELSE LET n == newline_run(s)
         IN  IF n >= 2
             THEN <<cur>> \o split_paragraphs(SubSeq(s, n + 1, Len(s)), <<>>)
             ELSE split_paragraphs(Tail(s), Append(cur, Head(s)))

\* p.replace(chr(10), "<br/>")
RECURSIVE br(_)
br(p) ==
    IF p = <<>> THEN <<>>
    ELSE (IF Head(p) = "\n" THEN <<"<", "b", "r", "/", ">">> ELSE <<Head(p)>>) \o br(Tail(p))

\* "".join(f"<p>{...}</p>" for p in parts), parts stripped, empty ones dropped
RECURSIVE paragraphs_html(_)
paragraphs_html(parts) ==
    IF parts = <<>> THEN <<>>
    ELSE LET p == strip(Head(parts))
         IN  (IF p = <<>> THEN <<>>
              ELSE <<"<", "p", ">">> \o br(p) \o <<"<", "/", "p", ">">>)
             \o paragraphs_html(Tail(parts))

html_body(body) == paragraphs_html(split_paragraphs(strip(body), <<>>))

\* "\n\nSources:\n" + "\n".join(urls)
text_sources(urls) ==
    <<"\n", "\n", "S", "o", "u", "r", "c", "e", "s", ":", "\n">> \o join(urls, <<"\n">>)

\* "\n\n**Sources:**\n" + "\n".join(f"- {u}" for u in urls)
markdown_sources(urls) ==
    <<"\n", "\n", "*", "*", "S", "o", "u", "r", "c", "e", "s", ":", "*", "*", "\n">>
    \o join([i \in 1..Len(urls) |-> <<"-", " ">> \o urls[i]], <<"\n">>)

\* f"<h3>Sources</h3><ul>{items}</ul>", items: <li><a href="u">u</a></li>
html_sources(urls) ==
    <<"<", "h", "3", ">", "S", "o", "u", "r", "c", "e", "s", "<", "/", "h", "3", ">",
      "<", "u", "l", ">">>
    \o concat([i \in 1..Len(urls) |->
                 <<"<", "l", "i", ">", "<", "a", " ", "h", "r", "e", "f", "=", "\"">>
                 \o urls[i] \o <<"\"", ">">> \o urls[i]
                 \o <<"<", "/", "a", ">", "<", "/", "l", "i", ">">>])
    \o <<"<", "/", "u", "l", ">">>

\* the sources block render_output appends, <<>> when it appends none
sources_section(used, fmt, include_sources) ==
    LET urls == source_urls(used)
    IN  IF ~include_sources \/ urls = <<>> \/ fmt \notin Formats THEN <<>>
        ELSE IF fmt = "text" THEN text_sources(urls)
        ELSE IF fmt = "markdown" THEN markdown_sources(urls)
        ELSE html_sources(urls)

\* the body as render_output holds it before any truncation
prepared_body(body, used, fmt) ==
    IF fmt = "text" THEN remove_urls(sanitize_plain(body), source_urls(used))
    ELSE IF fmt = "markdown" THEN body
    ELSE IF fmt = "html" THEN html_body(body)
    ELSE strip(body)

\* the part of render_output's result that comes before the sources block
rendered_body(body, used, fmt, max_chars, include_sources, links_in_char_limit) ==
    LET b == prepared_body(body, used, fmt)
        section == sources_section(used, fmt, include_sources)
        available_for_body == max_chars - Len(section)
        cut == IF section = <<>> THEN truncate_under(b, max_chars)
               ELSE IF links_in_char_limit
                    THEN (IF Len(b) > available_for_body
                          THEN truncate_under(b, available_for_body) ELSE b)
                    ELSE truncate_under(b, max_chars)
    IN  IF fmt = "markdown" /\ section # <<>> THEN rstrip(cut) ELSE cut

render_output(body, used, fmt, max_chars, include_sources, links_in_char_limit) ==
    rendered_body(body, used, fmt, max_chars, include_sources, links_in_char_limit)
    \o sources_section(used, fmt, include_sources)

-----------------------------------------------------------------------------
(* What the generative backend answers, and extract_json *)

\* A JSON value is [type, value]:
\*   "int"             an integer (a JSON true/false is an int to isinstance)
\*   "str_digits"      a string of ASCII digits, value the number they spell
\*   "str_superscript" a string of superscript digits: str.isdigit() is true
\*                     of it and int() raises ValueError on it
\*   "str_text"        any other string, value the string
\*   "null", "float"   value 0
\*   "list"            value the sequence of its items
\*   "object"          value the record of the fields the nodes read, a
\*                     missing field being Absent
JInt(n) == [type |-> "int", value |-> n]
JDigits(n) == [type |-> "str_digits", value |-> n]
JSuperscript == [type |-> "str_superscript", value |-> 0]
JText(t) == [type |-> "str_text", value |-> t]
JFloat == [type |-> "float", value |-> 0]
JNull == [type |-> "null", value |-> 0]
JList(items) == [type |-> "list", value |-> items]
Absent == [type |-> "absent", value |-> 0]
JObject(top, verdict, crit) ==
    [type |-> "object",
     value |-> [top_indices |-> top, verdict |-> verdict, critique |-> crit]]
EmptyObject == JObject(Absent, Absent, Absent)

\* The text llm.chat returned: JSON as a whole ("json"), text with a JSON
\* object between its first "{" and last "}" ("wrapped"), or text holding
\* no JSON at all ("text").
JsonText(v) == [kind |-> "json", value |-> v]
WrappedText(v) == [kind |-> "wrapped", value |-> v]
PlainText == [kind |-> "text", value |-> EmptyObject]

\* json.loads(text) when it parses, whatever it parses to; else the fragment
\* from the first "{" to the last "}" when that parses; else {}
extract_json(raw) ==
    IF raw.kind = "json" THEN raw.value
    ELSE IF raw.kind = "wrapped" THEN raw.value
    ELSE EmptyObject

-----------------------------------------------------------------------------
(* node_rank *)

RECURSIVE Urls(_)
Urls(docs) == IF docs = <<>> THEN <<>> ELSE <<Head(docs).url>> \o Urls(Tail(docs))

InSeq(x, s) == \E i \in 1..Len(s) : s[i] = x

\* for art in comp_arts[:2]: art is tagged and appended to the pool unless
\* its URL is empty or already in the pool.  The tag is written into the
\* document itself, so company_articles holds it too.  i is art's position.
RECURSIVE tag_added(_, _, _, _)
tag_added(pool, docs, name, i) ==
    IF docs = <<>> THEN [pool |-> pool, docs |-> <<>>]
    ELSE LET art == Head(docs)
             add == i <= 2 /\ art.url # 0 /\ ~InSeq(art.url, Urls(pool))
             tagged == IF add THEN [art EXCEPT !.company_related = name] ELSE art
             rest == tag_added(IF add THEN Append(pool, tagged) ELSE pool,
                               Tail(docs), name, i + 1)
         IN  [pool |-> rest.pool, docs |-> <<tagged>> \o rest.docs]

\* the loop over company_articles.items(), in the order of the dict
RECURSIVE merge_companies(_, _)
merge_companies(pool, companies) ==
    IF companies = <<>> THEN [pool |-> pool, companies |-> <<>>]
    ELSE LET h == tag_added(pool, Head(companies).docs, Head(companies).name, 1)
             rest == merge_companies(h.pool, Tail(companies))
         IN  [pool |-> rest.pool,
              companies |-> <<[name |-> Head(companies).name, docs |-> h.docs]>>
                            \o rest.companies]

\* the first two documents of every company, tagged
RECURSIVE first_two_of_each(_)
first_two_of_each(companies) ==
    IF companies = <<>> THEN <<>>
    ELSE LET c == Head(companies)
         IN  [i \in 1..Min(2, Len(c.docs)) |-> [c.docs[i] EXCEPT !.company_related = c.name]]
             \o first_two_of_each(Tail(companies))

\* a faulty variant: company documents are appended whatever their URL
candidate_pool_keeps_duplicates(arts, companies) == arts \o first_two_of_each(companies)

\* all_articles: the articles, then up to 2 documents of each company
candidate_pool(arts, companies) == merge_companies(arts, companies).pool

\* [int(i) for i in idxs if isinstance(i, int) or (isinstance(i, str) and i.isdigit())]
RECURSIVE int_items(_)
int_items(items) ==
    IF items = <<>> THEN <<>>
    ELSE IF Head(items).type \in {"int", "str_digits"}
         THEN <<Head(items).value>> \o int_items(Tail(items))
         ELSE int_items(Tail(items))

\* int(i) raises ValueError on a string isdigit() accepts and int() does not
int_raises(items) == \E i \in 1..Len(items) : items[i].type = "str_superscript"

RECURSIVE in_range(_, _)
in_range(idxs, n) ==
    IF idxs = <<>> THEN <<>>
    ELSE IF 0 <= Head(idxs) /\ Head(idxs) < n
         THEN <<Head(idxs)>> \o in_range(Tail(idxs), n)
         ELSE in_range(Tail(idxs), n)

\* [i for i in range(n) if i not in idxs], from index i on
RECURSIVE not_chosen(_, _, _)
not_chosen(i, n, idxs) ==
    IF i >= n THEN <<>>
    ELSE IF InSeq(i, idxs) THEN not_chosen(i + 1, n, idxs)
    ELSE <<i>> \o not_chosen(i + 1, n, idxs)

\* a faulty variant: pads with the lowest indices, chosen or not
repair_indices_pads_any(idxs, n, top_k) ==
    IF Len(idxs) < top_k
    THEN idxs \o Prefix(not_chosen(0, n, <<>>), top_k - Len(idxs))
    ELSE Prefix(idxs, top_k)

\* lines 647-651: pad with the lowest indices not chosen, or cut to top_k
repair_indices(idxs, n, top_k) ==
    IF Len(idxs) < top_k
    THEN idxs \o Prefix(not_chosen(0, n, idxs), top_k - Len(idxs))
    ELSE Prefix(idxs, top_k)

\* idxs as node_rank computes them from the parsed answer (an object)
selected_indices(data, n, top_k) ==
    LET top == data.value.top_indices
        items == IF top.type = "list" THEN top.value ELSE <<>>
    IN  repair_indices(in_range(int_items(items), n), n, top_k)

\* a faulty variant: an empty article list is not checked for
node_rank_unchecked(arts, companies, top_k, raw) ==
    LET pool == candidate_pool(arts, companies)
        data == extract_json(raw)
        top == data.value.top_indices
        idxs == selected_indices(data, Len(pool), top_k)
        none == [error |-> None, llm |-> 1, idxs |-> <<>>, selected |-> <<>>,
                 companies |-> merge_companies(arts, companies).companies]
    IN  IF data.type # "object"
        THEN [none EXCEPT !.error = "AttributeError"]
        ELSE IF top.type = "list" /\ int_raises(top.value)
        THEN [none EXCEPT !.error = "ValueError"]
        ELSE [none EXCEPT !.idxs = idxs,
                          !.selected = [i \in 1..Len(idxs) |-> pool[idxs[i] + 1]]]

\* node_rank: the exception it raises (None when it returns), whether it
\* called the backend, the indices it chose, the documents at them, and
\* company_articles as the tagging leaves it
node_rank(arts, companies, top_k, raw) ==
    LET pool == candidate_pool(arts, companies)
        data == extract_json(raw)
        top == data.value.top_indices
        idxs == selected_indices(data, Len(pool), top_k)
        none == [error |-> None, llm |-> 1, idxs |-> <<>>, selected |-> <<>>,
                 companies |-> merge_companies(arts, companies).companies]
    IN  IF arts = <<>>
        THEN [none EXCEPT !.error = "RuntimeError", !.llm = 0, !.companies = companies]
        ELSE IF data.type # "object"
        THEN [none EXCEPT !.error = "AttributeError"]
        ELSE IF top.type = "list" /\ int_raises(top.value)
        THEN [none EXCEPT !.error = "ValueError"]
        ELSE [none EXCEPT !.idxs = idxs,
                          !.selected = [i \in 1..Len(idxs) |-> pool[idxs[i] + 1]]]

-----------------------------------------------------------------------------
(* search_articles and node_search_companies *)

\* Publish times: 0 is a missing timestamp, StartTime the start of the date
\* window, NowTime the time of the call.
StartTime == 2
NowTime == 4

RawItem(u, t) == [url |-> u, published_at |-> t]

within_range(t, start_dt, end_dt) == start_dt <= t /\ t <= end_dt

\* the loop over q.execQuery: results without timestamp or URL are skipped
RECURSIVE raw_items(_)
raw_items(arts) ==
    IF arts = <<>> THEN <<>>
    ELSE IF Head(arts).published_at = 0 \/ Head(arts).url = 0
         THEN raw_items(Tail(arts))
         ELSE <<Doc(Head(arts).url, Head(arts).published_at)>> \o raw_items(Tail(arts))

RECURSIVE in_window(_)
in_window(items) ==
    IF items = <<>> THEN <<>>
    ELSE IF within_range(Head(items).published_at, StartTime, NowTime)
         THEN <<Head(items)>> \o in_window(Tail(items))
         ELSE in_window(Tail(items))

\* unique_by_url(items), seen being the URLs kept so far
RECURSIVE unique_from(_, _)
unique_from(items, seen) ==
    IF items = <<>> THEN <<>>
    ELSE IF Head(items).url = 0 \/ Head(items).url \in seen
         THEN unique_from(Tail(items), seen)
         ELSE <<Head(items)>> \o unique_from(Tail(items), seen \cup {Head(items).url})

Reverse(s) == [i \in 1..Len(s) |-> s[Len(s) + 1 - i]]

\* a faulty variant: the last occurrence of a URL is the one kept
unique_by_url_keep_last(items) == Reverse(unique_from(Reverse(items), {}))

unique_by_url(items) == unique_from(items, {})

\* x put into a list sorted by published_at, latest first, after the items
\* that are as late as x (list.sort is stable, also with reverse=True)
RECURSIVE insert_desc(_, _)
insert_desc(sorted, x) ==
    IF sorted = <<>> THEN <<x>>
    ELSE IF Head(sorted).published_at >= x.published_at
         THEN <<Head(sorted)>> \o insert_desc(Tail(sorted), x)
         ELSE <<x>> \o sorted

\* a faulty variant: the items stay in the order of the backend
sort_desc_unsorted(items) == items

\* items.sort(key=lambda x: x["published_at"], reverse=True)
RECURSIVE sort_desc(_)
sort_desc(items) ==
    IF items = <<>> THEN <<>>
    ELSE insert_desc(sort_desc(SubSeq(items, 1, Len(items) - 1)), items[Len(items)])

\* a faulty variant: the terms are looked at before the credential
search_articles_terms_first(has_key, has_terms, arts, max_results) ==
    IF ~has_terms THEN [error |-> None, queried |-> FALSE, items |-> <<>>]
    ELSE IF ~has_key THEN [error |-> "RuntimeError", queried |-> FALSE, items |-> <<>>]
    ELSE [error |-> None, queried |-> TRUE,
          items |-> Prefix(sort_desc(unique_by_url(in_window(raw_items(arts)))),
                           max_results)]

\* search_articles: RuntimeError without a credential, [] without terms,
\* else the backend's results filtered, deduplicated, sorted and cut
search_articles(has_key, has_terms, arts, max_results) ==
    IF ~has_key THEN [error |-> "RuntimeError", queried |-> FALSE, items |-> <<>>]
    ELSE IF ~has_terms THEN [error |-> None, queried |-> FALSE, items |-> <<>>]
    ELSE [error |-> None, queried |-> TRUE,
          items |-> Prefix(sort_desc(unique_by_url(in_window(raw_items(arts)))),
                           max_results)]

\* A web result of search_companies_web as the relevance filter of
\* node_search_companies sees it: "full" when the company is mentioned and
\* the topic too (or the company twice), "partial" when only the company is
\* mentioned, "none" otherwise.
WebResult(u, r) == [url |-> u, relevance |-> r]

RECURSIVE filtered_articles(_)
filtered_articles(results) ==
    IF results = <<>> THEN <<>>
    ELSE LET r == Head(results)
             d == Doc(r.url, NowTime)
         IN  (IF r.relevance = "full" THEN <<d>>
              ELSE IF r.relevance = "partial"
                   THEN <<[d EXCEPT !.relevance_score = "medium"]>>
              ELSE <<>>)
             \o filtered_articles(Tail(results))

\* a faulty variant: the first search that raises ends the loop
company_search_stops(focus, enabled, outcomes) ==
    IF focus = <<>> \/ ~enabled THEN <<>>
    ELSE LET failed == {i \in 1..Len(focus) : outcomes[i].raised}
             n == IF failed = {} THEN Len(focus)
                  ELSE (CHOOSE i \in failed : \A j \in failed : i <= j) - 1
         IN  [i \in 1..n |->
                [name |-> focus[i], docs |-> filtered_articles(outcomes[i].results)]]

\* node_search_companies: one entry per company, in the order of
\* company_focus; outcomes[i] is what the search for company i did
company_search(focus, enabled, outcomes) ==
    IF focus = <<>> \/ ~enabled THEN <<>>
    ELSE [i \in 1..Len(focus) |->
            [name |-> focus[i],
             docs |-> IF outcomes[i].raised THEN <<>>
                      ELSE filtered_articles(outcomes[i].results)]]

-----------------------------------------------------------------------------
(* node_draft, node_verify, node_revise, should_continue *)

\* What the backend wrote for a draft or a revision: the text before the
\* first "USED_SOURCES:", whether that marker is there, and the numbers
\* re.findall(r'\d+') finds after it.
Written(body, has_marker, numbers) ==
    [body |-> body, has_marker |-> has_marker, numbers |-> numbers]

\* [int(n) - 1 for n in numbers if 0 <= int(n) - 1 < len(selected)]
RECURSIVE valid_indices(_, _)
valid_indices(numbers, n) ==
    IF numbers = <<>> THEN <<>>
    ELSE IF 0 <= Head(numbers) - 1 /\ Head(numbers) - 1 < n
         THEN <<Head(numbers) - 1>> \o valid_indices(Tail(numbers), n)
         ELSE valid_indices(Tail(numbers), n)

\* selected.index(s)
index_of(docs, s) == CHOOSE i \in 1..Len(docs) : docs[i] = s /\ \A j \in 1..(i - 1) : docs[j] # s

\* [selected.index(s) for s in used_sources if s in selected]
RECURSIVE indices_of(_, _)
indices_of(used, docs) ==
    IF used = <<>> THEN <<>>
    ELSE IF InSeq(Head(used), docs)
         THEN <<index_of(docs, Head(used)) - 1>> \o indices_of(Tail(used), docs)
         ELSE indices_of(Tail(used), docs)

at_indices(docs, idxs) == [i \in 1..Len(idxs) |-> docs[idxs[i] + 1]]

\* a faulty variant: an out-of-range number is clamped to the last document
draft_used_clamped(docs, written) ==
    LET idxs == IF written.has_marker
                THEN [i \in 1..Len(written.numbers) |->
                        Min(Max(written.numbers[i], 1), Len(docs)) - 1]
                ELSE [i \in 1..Len(docs) |-> i - 1]
    IN  IF idxs # <<>> THEN at_indices(docs, idxs) ELSE docs

\* a faulty variant: a marker without a valid number leaves no source
draft_used_marker_only(docs, written) ==
    LET idxs == IF written.has_marker
                THEN valid_indices(written.numbers, Len(docs))
                ELSE [i \in 1..Len(docs) |-> i - 1]
    IN  at_indices(docs, idxs)

\* used_sources of node_draft (lines 843-858)
draft_used(docs, written) ==
    LET idxs == IF written.has_marker
                THEN valid_indices(written.numbers, Len(docs))
                ELSE [i \in 1..Len(docs) |-> i - 1]
    IN  IF idxs # <<>> THEN at_indices(docs, idxs) ELSE docs

\* a faulty variant: the fallback is the selected documents, as in node_draft
revise_used_all(docs, used, written) == draft_used(docs, written)

\* new_used_sources of node_revise (lines 1034-1049)
revise_used(docs, used, written) ==
    LET idxs == IF written.has_marker
                THEN valid_indices(written.numbers, Len(docs))
                ELSE indices_of(used, docs)
    IN  IF idxs # <<>> THEN at_indices(docs, idxs) ELSE used

rendered(c, body, used) ==
    render_output(body, used, c.output_format, c.max_chars, c.include_links,
                  c.links_in_char_limit)

node_draft(c, docs, written, iter) ==
    LET used == draft_used(docs, written)
    IN  [post |-> rendered(c, strip(written.body), used), used_sources |-> used,
         iteration |-> iter]

\* a faulty variant: the revised text is dropped, the post is rendered empty
node_revise_drops_text(c, docs, used, written, iter) ==
    LET new_used == revise_used(docs, used, written)
    IN  [post |-> rendered(c, <<>>, new_used),
         used_sources |-> new_used, iteration |-> iter + 1]

node_revise(c, docs, used, written, iter) ==
    LET new_used == revise_used(docs, used, written)
    IN  [post |-> rendered(c, strip(written.body), new_used),
         used_sources |-> new_used, iteration |-> iter + 1]

\* one row of the fact sheet per document, in order (title, source and
\* description are not modelled)
build_fact_sheet(docs) ==
    [i \in 1..Len(docs) |-> [url |-> docs[i].url, published_at |-> docs[i].published_at]]

\* a faulty variant: the verifier is shown all selected documents
verify_sources_selected(used, sel) == sel

\* state.get("used_sources", state["selected"]): the key is in the state from
\* run_workflow's initial state on, so the default is never taken
verify_sources(used, sel) == used

\* str(v).strip().lower() of the verdict strings the model uses
strip_lower(t) ==
    IF t \in {" Approve\n", "APPROVE", "approve "} THEN "approve" ELSE t

GenericCritique == "Content needs revision for accuracy and compliance."

\* node_verify: AttributeError when the parsed answer has no .get
node_verify(raw) ==
    LET data == extract_json(raw)
        v == data.value.verdict
        c == data.value.critique
        verdict == IF v.type = "str_text" THEN strip_lower(v.value) ELSE "other"
        crit == IF c.type = "str_text" THEN c.value ELSE None
    IN  IF data.type # "object" THEN [error |-> "AttributeError", critique |-> None]
        ELSE IF verdict = "approve" THEN [error |-> None, critique |-> None]
        ELSE [error |-> None,
              critique |-> IF crit # None /\ crit # "" THEN crit ELSE GenericCritique]

\* a faulty variant: the dict returned by node_verify empties used_sources too
verify_update_clears_sources(raw) ==
    [critique |-> node_verify(raw).critique, used_sources |-> <<>>]

\* the dict node_verify returns: the key critique alone (lines 956-958)
verify_update(raw) == [critique |-> node_verify(raw).critique]

\* the value of a key of the graph state after a node returned update: the
\* returned value when the key is in the dict, the value of before when not
merged(key, old, update) == IF key \in DOMAIN update THEN update[key] ELSE old

\* a faulty variant: one revision more than max_iterations
should_continue_one_more(crit, iter, max_iterations) ==
    IF crit # None /\ crit # "" /\ iter <= max_iterations THEN "revise" ELSE "finish"

\* a faulty variant: revises also an approved draft
should_continue_ignores_verdict(crit, iter, max_iterations) ==
    IF iter < max_iterations THEN "revise" ELSE "finish"

should_continue(crit, iter, max_iterations) ==
    IF crit # None /\ crit # "" /\ iter < max_iterations THEN "revise" ELSE "finish"

-----------------------------------------------------------------------------
(* render_output called on its own *)

\* no call of search_companies_web, no call of a function of its own
NoAgg == [phase |-> "none"]
NoFn == [fn |-> "none"]

NoCall == [phase |-> "none", body |-> <<>>, used |-> <<>>, fmt |-> "text",
           max_chars |-> 0, include_sources |-> FALSE,
           links_in_char_limit |-> FALSE, out |-> <<>>]

\* the used_sources lists tried: none, a document without URL, one document,
\* two documents
RenderSources ==
    {<<>>, <<Doc(0, 2)>>, <<Doc(1, 2)>>, <<Doc(1, 2), Doc(2, 2)>>}

RenderCalls ==
    [phase : {"ready"}, body : SeqsUpTo(BodyChars, MaxBodyLen), used : RenderSources,
     fmt : Formats, max_chars : 0..MaxChars, include_sources : BOOLEAN,
     links_in_char_limit : BOOLEAN, out : {<<>>}]

NoRun ==
    /\ pc = "none"
    /\ cfg = None
    /\ articles = <<>>
    /\ company_articles = <<>>
    /\ selected = <<>>
    /\ used_sources = <<>>
    /\ post = <<>>
    /\ critique = None
    /\ iteration = 0
    /\ last = None
    /\ calls = None
    /\ error = None
    /\ returned = None

RenderInit == NoRun /\ rcall \in RenderCalls /\ agg = NoAgg /\ fcall = NoFn

Render ==
    /\ rcall.phase = "ready"
    /\ rcall' = [rcall EXCEPT
                   !.phase = "done",
                   !.out = render_output(rcall.body, rcall.used, rcall.fmt,
                                         rcall.max_chars, rcall.include_sources,
                                         rcall.links_in_char_limit)]
    /\ UNCHANGED <<pc, cfg, articles, company_articles, selected, used_sources,
                   post, critique, iteration, last, calls, error,
                   returned, agg, fcall>>

RenderNext == Render

RenderSpec == RenderInit /\ [][RenderNext]_vars

-----------------------------------------------------------------------------
(* The run: run_workflow and the graph of build_graph *)

\* rendering options tried by whole runs: each format once, links counted,
\* links left out, links not counted
RunRender ==
    {[output_format |-> "text", include_links |-> TRUE, links_in_char_limit |-> TRUE],
     [output_format |-> "markdown", include_links |-> FALSE, links_in_char_limit |-> TRUE],
     [output_format |-> "html", include_links |-> TRUE, links_in_char_limit |-> FALSE]}

RunConfigs ==
    {[top_k |-> k, max_iterations |-> m, max_chars |-> MaxChars, max_fetch |-> MaxFetch,
      output_format |-> r.output_format, include_links |-> r.include_links,
      links_in_char_limit |-> r.links_in_char_limit,
      company_focus |-> f, enable_company_search |-> e,
      has_key |-> key, has_terms |-> terms] :
        k \in 1..MaxTopK, m \in 0..MaxIterations, r \in RunRender,
        f \in {<<>>, <<"acme">>}, e \in BOOLEAN, key \in BOOLEAN, terms \in BOOLEAN}

\* what the news backend may return to one query
RunRawItems ==
    {RawItem(1, NowTime), RawItem(2, StartTime), RawItem(0, NowTime),
     RawItem(1, 0), RawItem(2, StartTime - 1)}

\* what one company search may do
RunCompanyOutcomes ==
    {[raised |-> TRUE, results |-> <<>>]} \cup
    {[raised |-> FALSE, results |-> r] :
        r \in {<<>>, <<WebResult(2, "full")>>,
               <<WebResult(3, "partial"), WebResult(4, "none")>>}}

ChatFailed == [kind |-> "error", value |-> EmptyObject]

\* what the web searches of node_search_companies did, company by company
WebAnswers(outcomes) == [kind |-> "web", value |-> [web |-> outcomes]]

\* the node made no call to the backend
NoAnswer == [kind |-> "none", value |-> EmptyObject]

\* what the backend may answer the ranking prompt of a run
RunRankAnswers ==
    {PlainText, JsonText(JNull)} \cup
    {JsonText(JObject(JList(t), Absent, Absent)) :
        t \in {<<>>, <<JInt(1)>>, <<JInt(1), JInt(1)>>, <<JInt(2), JInt(0)>>, <<JInt(7)>>}}

\* what the backend may write for a draft or a revision of a run
RunWritten ==
    {Written(b, m, n) :
        b \in {<<"a", ".">>, <<"w", "\n", "a">>},
        m \in {TRUE}, n \in {<<>>, <<1>>, <<2>>, <<0, 3>>}}
    \cup {Written(b, FALSE, <<>>) : b \in {<<"a", ".">>, <<"w", "\n", "a">>}}

\* what the backend may answer the verification prompt of a run
RunVerdicts ==
    {PlainText, JsonText(JList(<<>>)),
     JsonText(JObject(Absent, JText(" Approve\n"), Absent)),
     JsonText(JObject(Absent, JText("revise"), JText("fix it"))),
     WrappedText(JObject(Absent, JText("revise"), JText("")))}

NoCalls == [llm |-> 0, search |-> 0, query |-> 0, rank |-> 0, draft |-> 0, verify |-> 0,
            revise |-> 0]

Node(name, raw, idxs, used) ==
    [node |-> name, raw |-> raw, idxs |-> idxs, used_before |-> used, facts |-> <<>>]

\* a node that put a fact sheet into its prompt
NodeWithFacts(name, raw, used, facts) ==
    [node |-> name, raw |-> raw, idxs |-> <<>>, used_before |-> used, facts |-> facts]

Called(names) == [n \in DOMAIN calls |-> IF n \in names THEN calls[n] + 1 ELSE calls[n]]

\* the state run_workflow hands to graph.invoke (lines 1140-1171)
Init ==
    /\ cfg \in RunConfigs
    /\ pc = "search"
    /\ articles = <<>>
    /\ company_articles = <<>>
    /\ selected = <<>>
    /\ used_sources = <<>>
    /\ post = <<>>
    /\ critique = None
    /\ iteration = 0
    /\ last = Node("start", NoAnswer, <<>>, <<>>)
    /\ calls = NoCalls
    /\ error = None
    /\ returned = None
    /\ rcall = NoCall /\ agg = NoAgg /\ fcall = NoFn

\* a faulty variant: the edge from revise leads to END
edge_revise_to_end(node) ==
    CASE node = "search" -> "search_companies"
      [] node = "search_companies" -> "rank"
      [] node = "rank" -> "draft"
      [] node = "draft" -> "verify"
      [] node = "revise" -> "END"

\* the edges build_graph adds with add_edge
edge(node) ==
    CASE node = "search" -> "search_companies"
      [] node = "search_companies" -> "rank"
      [] node = "rank" -> "draft"
      [] node = "draft" -> "verify"
      [] node = "revise" -> "verify"

\* an exception leaves graph.invoke and run_workflow: nothing is returned
Raise(e) ==
    /\ pc' = "failed"
    /\ error' = e

\* graph.invoke merges the dict a node returned into the state
Update(update) ==
    /\ articles' = merged("articles", articles, update)
    /\ company_articles' = merged("company_articles", company_articles, update)
    /\ selected' = merged("selected", selected, update)
    /\ used_sources' = merged("used_sources", used_sources, update)
    /\ post' = merged("post", post, update)
    /\ critique' = merged("critique", critique, update)
    /\ iteration' = merged("iteration", iteration, update)

Search ==
    /\ pc = "search"
    /\ \E arts \in SeqsUpTo(RunRawItems, cfg.max_fetch) :
         LET r == search_articles(cfg.has_key, cfg.has_terms, arts, cfg.max_fetch)
         IN  /\ last' = Node("search", NoAnswer, <<>>, used_sources)
             /\ calls' = Called(IF r.queried THEN {"search", "query"} ELSE {"search"})
             /\ IF r.error # None
                THEN Raise(r.error) /\ UNCHANGED articles
                ELSE articles' = r.items /\ pc' = edge("search") /\ UNCHANGED error
    /\ UNCHANGED <<cfg, company_articles, selected, used_sources, post, critique,
                   iteration, returned, rcall, agg, fcall>>

\* node_search_companies, the web search of company i doing one of answers
SearchCompaniesWith(answers) ==
    /\ pc = "search_companies"
    /\ \E outcomes \in [1..Len(cfg.company_focus) -> answers] :
         /\ company_articles' =
               company_search(cfg.company_focus, cfg.enable_company_search, outcomes)
         /\ last' = Node("search_companies", WebAnswers(outcomes), <<>>, used_sources)
    /\ pc' = edge("search_companies")
    /\ UNCHANGED <<cfg, articles, selected, used_sources, post, critique, iteration,
                   calls, error, returned, rcall, agg, fcall>>

SearchCompanies == SearchCompaniesWith(RunCompanyOutcomes)

\* node_rank, the backend answering raw (ChatFailed: llm.chat raises)
RankWith(answers) ==
    /\ pc = "rank"
    /\ \E raw \in answers \cup {ChatFailed} :
         LET r == node_rank(articles, company_articles, cfg.top_k, raw)
         IN  /\ last' = Node("rank", raw, r.idxs, used_sources)
             /\ calls' = Called(IF r.llm = 1 THEN {"rank", "llm"} ELSE {"rank"})
             /\ company_articles' = r.companies
             /\ IF r.error # None
                THEN Raise(r.error) /\ UNCHANGED selected
                ELSE IF raw = ChatFailed
                THEN Raise("RuntimeError") /\ UNCHANGED selected
                ELSE selected' = r.selected /\ pc' = edge("rank") /\ UNCHANGED error
    /\ UNCHANGED <<cfg, articles, used_sources, post, critique, iteration, returned,
                   rcall, agg, fcall>>

Rank == RankWith(RunRankAnswers)

DraftWith(writings) ==
    /\ pc = "draft"
    /\ calls' = Called({"draft", "llm"})
    /\ \/ /\ Raise("RuntimeError")
          /\ last' = Node("draft", ChatFailed, <<>>, used_sources)
          /\ UNCHANGED <<articles, company_articles, selected, used_sources, post,
                         critique, iteration>>
       \/ \E w \in writings :
            /\ Update(node_draft(cfg, selected, w, iteration))
            /\ last' = Node("draft", w, <<>>, used_sources)
            /\ pc' = edge("draft")
            /\ UNCHANGED error
    /\ UNCHANGED <<cfg, returned, rcall, agg, fcall>>

Draft == DraftWith(RunWritten)

\* node_verify, then the conditional edge should_continue
VerifyWith(answers) ==
    /\ pc = "verify"
    /\ calls' = Called({"verify", "llm"})
    /\ \E raw \in answers \cup {ChatFailed} :
         LET r == node_verify(raw)
         IN  /\ last' = NodeWithFacts("verify", raw, used_sources,
                                       build_fact_sheet(verify_sources(used_sources,
                                                                       selected)))
             /\ IF raw = ChatFailed \/ r.error # None
                THEN /\ Raise(IF raw = ChatFailed THEN "RuntimeError" ELSE r.error)
                     /\ UNCHANGED <<articles, company_articles, selected, used_sources,
                                    post, critique, iteration>>
                ELSE /\ Update(verify_update(raw))
                     /\ pc' = IF should_continue(critique', iteration',
                                                 cfg.max_iterations) = "revise"
                              THEN "revise" ELSE "END"
                     /\ UNCHANGED error
    /\ UNCHANGED <<cfg, returned, rcall, agg, fcall>>

Verify == VerifyWith(RunVerdicts)

ReviseWith(writings) ==
    /\ pc = "revise"
    /\ calls' = Called({"revise", "llm"})
    /\ \/ /\ Raise("RuntimeError")
          /\ last' = Node("revise", ChatFailed, <<>>, used_sources)
          /\ UNCHANGED <<articles, company_articles, selected, used_sources, post,
                         critique, iteration>>
       \/ \E w \in writings :
            /\ Update(node_revise(cfg, selected, used_sources, w, iteration))
            /\ last' = Node("revise", w, <<>>, used_sources)
            /\ pc' = edge("revise")
            /\ UNCHANGED error
    /\ UNCHANGED <<cfg, returned, rcall, agg, fcall>>

Revise == ReviseWith(RunWritten)

\* graph.invoke returns at END and run_workflow returns the stripped post
Return ==
    /\ pc = "END"
    /\ returned' = strip(post)
    /\ pc' = "done"
    /\ UNCHANGED <<cfg, articles, company_articles, selected, used_sources, post,
                   critique, iteration, last, calls, error, rcall, agg, fcall>>

Next == Search \/ SearchCompanies \/ Rank \/ Draft \/ Verify \/ Revise \/ Return

Spec == Init /\ [][Next]_vars

\* graph.invoke runs node after node until END or an exception: a run never
\* stops at a node that can step
FairSpec == Spec /\ WF_vars(Next)

-----------------------------------------------------------------------------
(* node_rank on its own: the Selector under every answer of the backend *)

\* the states a run can be in when it enters node_rank
AtRank(c, arts, outcomes) ==
    /\ cfg = c
    /\ pc = "rank"
    /\ articles = search_articles(TRUE, TRUE, arts, c.max_fetch).items
    /\ company_articles = company_search(c.company_focus, TRUE, outcomes)
    /\ selected = <<>>
    /\ used_sources = <<>>
    /\ post = <<>>
    /\ critique = None
    /\ iteration = 0
    /\ last = Node("search_companies", NoAnswer, <<>>, <<>>)
    /\ calls = [NoCalls EXCEPT !.search = 1, !.query = 1]
    /\ error = None
    /\ returned = None
    /\ rcall = NoCall /\ agg = NoAgg /\ fcall = NoFn

SelectorConfigs ==
    {[top_k |-> k, max_iterations |-> 0, max_chars |-> MaxChars, max_fetch |-> MaxFetch,
      output_format |-> "text", include_links |-> TRUE, links_in_char_limit |-> TRUE,
      company_focus |-> f, enable_company_search |-> TRUE,
      has_key |-> TRUE, has_terms |-> TRUE] :
        k \in 1..MaxTopK, f \in {<<>>, <<"acme">>, <<"acme", "bolt">>}}

\* what a company search may find: nothing, a URL the articles hold, new
\* URLs, more than the two documents node_rank takes
SelectorOutcomes ==
    {[raised |-> FALSE, results |-> r] :
        r \in {<<>>, <<WebResult(2, "full")>>, <<WebResult(3, "full")>>,
               <<WebResult(3, "partial"), WebResult(2, "full")>>,
               <<WebResult(3, "full"), WebResult(4, "full"), WebResult(5, "full")>>}}

\* what top_indices may hold: every index of the largest pool (the articles
\* and two company documents), integers out of range, a string of digits, a
\* string int() rejects, something that is neither int nor str
IndexItems ==
    {JInt(i) : i \in -1..(MaxFetch + 2)} \cup {JDigits(0), JSuperscript, JFloat}

SelectorAnswers ==
    {PlainText, JsonText(JNull), JsonText(JList(<<JInt(0)>>)), JsonText(JText("0")),
     JsonText(EmptyObject), JsonText(JObject(JInt(0), Absent, Absent)),
     JsonText(JObject(JNull, Absent, Absent))}
    \cup {JsonText(JObject(JList(t), Absent, Absent)) : t \in SeqsUpTo(IndexItems, MaxIndices)}
    \cup {WrappedText(JObject(JList(<<JInt(i)>>), Absent, Absent)) : i \in 0..1}

SelectorInit ==
    \E c \in SelectorConfigs, arts \in SeqsUpTo(RunRawItems, MaxFetch) :
        \E outcomes \in [1..Len(c.company_focus) -> SelectorOutcomes] :
            AtRank(c, arts, outcomes)

SelectorRank == RankWith(SelectorAnswers)

SelectorNext == SelectorRank

SelectorSpec == SelectorInit /\ [][SelectorNext]_vars

-----------------------------------------------------------------------------
(* node_search_companies on its own: the Company Verifier *)

MaxCompanies == 2   \* number of entries of company_focus

CompanyNames == <<"acme", "bolt", "core">>

CompanyConfigs ==
    {[top_k |-> 1, max_iterations |-> 0, max_chars |-> MaxChars, max_fetch |-> MaxFetch,
      output_format |-> "text", include_links |-> TRUE, links_in_char_limit |-> TRUE,
      company_focus |-> SubSeq(CompanyNames, 1, n), enable_company_search |-> e,
      has_key |-> TRUE, has_terms |-> TRUE] :
        n \in 0..MaxCompanies, e \in BOOLEAN}

\* what the web search of one company may do: raise, find nothing, find
\* results the relevance filter drops, keeps, keeps in part
CompanyOutcomes ==
    {[raised |-> TRUE, results |-> <<>>]} \cup
    {[raised |-> FALSE, results |-> r] :
        r \in {<<>>, <<WebResult(4, "none")>>, <<WebResult(2, "full")>>,
               <<WebResult(3, "partial"), WebResult(4, "none")>>,
               <<WebResult(3, "full"), WebResult(5, "partial")>>}}

\* the states a run can be in when it enters node_search_companies
CompanyInit ==
    \E c \in CompanyConfigs, arts \in SeqsUpTo(RunRawItems, 1) :
        /\ cfg = c
        /\ pc = "search_companies"
        /\ articles = search_articles(TRUE, TRUE, arts, c.max_fetch).items
        /\ company_articles = <<>>
        /\ selected = <<>>
        /\ used_sources = <<>>
        /\ post = <<>>
        /\ critique = None
        /\ iteration = 0
        /\ last = Node("search", NoAnswer, <<>>, <<>>)
        /\ calls = [NoCalls EXCEPT !.search = 1, !.query = 1]
        /\ error = None
        /\ returned = None
        /\ rcall = NoCall /\ agg = NoAgg /\ fcall = NoFn

CompanySearch == SearchCompaniesWith(CompanyOutcomes)

CompanyRank == RankWith({PlainText})

CompanyNext == CompanySearch \/ CompanyRank

CompanySpec == CompanyInit /\ [][CompanyNext]_vars

-----------------------------------------------------------------------------
(* node_draft and node_revise under every USED_SOURCES marker *)

\* a pool of two articles and one company document
DraftPool ==
    <<Doc(1, NowTime), Doc(2, StartTime),
      [Doc(3, NowTime) EXCEPT !.company_related = "acme"]>>

\* what node_rank may have selected from it: any documents of the pool, in
\* any order
DraftSelections ==
    {[i \in 1..Len(s) |-> DraftPool[s[i]]] :
        s \in SeqsUpTo(1..Len(DraftPool), MaxTopK) \ {<<>>}}

DraftConfigs ==
    {[top_k |-> k, max_iterations |-> m, max_chars |-> MaxChars, max_fetch |-> MaxFetch,
      output_format |-> "text", include_links |-> TRUE, links_in_char_limit |-> TRUE,
      company_focus |-> <<"acme">>, enable_company_search |-> TRUE,
      has_key |-> TRUE, has_terms |-> TRUE] :
        k \in 1..MaxTopK, m \in 1..MaxIterations}

\* every marker: none, or up to MaxMarker numbers, each 0, a position of a
\* selected document, or one past the last
DraftWritten ==
    {Written(<<"a", ".">>, TRUE, n) : n \in SeqsUpTo(0..(MaxTopK + 1), MaxMarker)}
    \cup {Written(<<"a", ".">>, FALSE, <<>>)}

DraftVerdicts ==
    {JsonText(JObject(Absent, JText(v), c)) :
        v \in {"approve", "APPROVE", "approved", "revise"},
        c \in {Absent, JText("fix it")}}
    \cup {JsonText(JObject(Absent, Absent, JText(""))),
          JsonText(JObject(Absent, JNull, JNull)),
          JsonText(JNull), JsonText(JList(<<>>)), PlainText,
          WrappedText(JObject(Absent, JText("approve "), Absent))}

DraftInit ==
    \E c \in DraftConfigs, sel \in DraftSelections :
        /\ c.top_k = Len(sel)
        /\ cfg = c
        /\ pc = "draft"
        /\ articles = SubSeq(DraftPool, 1, 2)
        /\ company_articles = <<[name |-> "acme", docs |-> <<DraftPool[3]>>]>>
        /\ selected = sel
        /\ used_sources = <<>>
        /\ post = <<>>
        /\ critique = None
        /\ iteration = 0
        /\ last = Node("rank", PlainText, <<>>, <<>>)
        /\ calls = [NoCalls EXCEPT !.search = 1, !.query = 1, !.rank = 1, !.llm = 1]
        /\ error = None
        /\ returned = None
        /\ rcall = NoCall /\ agg = NoAgg /\ fcall = NoFn

DraftDraft == DraftWith(DraftWritten)
DraftVerify == VerifyWith(DraftVerdicts)
DraftRevise == ReviseWith(DraftWritten)

DraftNext == DraftDraft \/ DraftVerify \/ DraftRevise \/ Return

DraftSpec == DraftInit /\ [][DraftNext]_vars

-----------------------------------------------------------------------------
(* search_companies_web: the Provider Aggregator *)

MaxResults == 2    \* max_results of a call of search_companies_web
MaxRetries == 1    \* retries of a call
MaxBackends == 2   \* number of backends of a call
MaxChunk == 2      \* number of results one backend query yields

\* An href scheme://[www.]host path [/...] [?query]; path is the path without
\* its trailing slashes, slashes their number.
Href(scheme, www, host, path, slashes, query) ==
    [scheme |-> scheme, www |-> www, host |-> host, path |-> path,
     slashes |-> slashes, query |-> query]

\* r.get("href") is None or empty
NoHref == Href("", FALSE, "", "", 0, "")

\* https://www.A.com/p/ and http://a.com/p?q have the same key; the path of
\* https://a.com/P differs from theirs by case
Hrefs ==
    {Href("https", TRUE, "A.com", "/p", 1, ""),
     Href("http", FALSE, "a.com", "/p", 0, "?q"),
     Href("https", FALSE, "a.com", "/P", 0, ""),
     Href("https", FALSE, "b.com", "", 1, "")}

\* str.lower() on the hosts of Hrefs
lower(host) == IF host = "A.com" THEN "a.com" ELSE host

\* a faulty variant: the query string is part of the key
norm_with_query(u) == [host |-> lower(u.host), path |-> u.path \o u.query]

\* norm: netloc lower-cased without a leading "www.", then the path without
\* trailing slashes; scheme and query are not part of the key
norm(u) == [host |-> lower(u.host), path |-> u.path]

\* the record fetch_block appends for a result
WebItem(url) ==
    [url |-> url, published_at |-> NowTime,
     source |-> (IF url.www THEN "www." ELSE "") \o url.host]

\* what one attempt of fetch_block meets: results that are all gone through,
\* or an exception after the results gone through so far (the query raising
\* while it yields, urlparse rejecting the next href)
Answer(raised, results) == [raised |-> raised, results |-> results]

\* the for loop of fetch_block over the yielded results
RECURSIVE fetch_loop(_, _, _, _)
fetch_loop(rs, seen, block, target) ==
    IF rs = <<>> THEN [block |-> block, seen |-> seen]
    ELSE LET url == Head(rs)
             key == norm(url)
         IN  IF url = NoHref \/ key \in seen
             THEN fetch_loop(Tail(rs), seen, block, target)
             ELSE IF Len(block) + 1 >= target
             THEN [block |-> Append(block, WebItem(url)), seen |-> seen \cup {key}]
             ELSE fetch_loop(Tail(rs), seen \cup {key},
                             Append(block, WebItem(url)), target)

\* fetch_block: the block of new records, lost when the query raises, and
\* the set seen, which keeps the keys added before the query raised
fetch_block(answer, seen, want) ==
    LET r == fetch_loop(answer.results, seen, <<>>, Max(want * 3, 15))
    IN  [raised |-> answer.raised,
         block |-> IF answer.raised THEN <<>> ELSE r.block,
         seen |-> r.seen]

\* any(buckets)
RECURSIVE any(_)
any(bs) == IF bs = <<>> THEN FALSE ELSE Head(bs) # <<>> \/ any(Tail(bs))

\* one pass of "for b in buckets" at position i
RECURSIVE merge_round(_, _, _, _, _)
merge_round(bs, i, results, max_results, advanced) ==
    IF bs = <<>> THEN [results |-> results, advanced |-> advanced]
    ELSE IF i < Len(Head(bs))
    THEN LET r == Append(results, Head(bs)[i + 1])
         IN  IF Len(r) >= max_results
             THEN [results |-> r, advanced |-> TRUE]
             ELSE merge_round(Tail(bs), i, r, max_results, TRUE)
    ELSE merge_round(Tail(bs), i, results, max_results, advanced)

\* a faulty variant: a round stops at the first bucket that has an item
merge_from_first_bucket(bs, i, results, max_results) ==
    [results |-> IF bs = <<>> THEN <<>> ELSE Prefix(Head(bs), max_results),
     rounds |-> 0]

\* the while loop of the round-robin merge, from position i on: the results
\* and the number of times its body ran
RECURSIVE merge_from(_, _, _, _)
merge_from(bs, i, results, max_results) ==
    IF ~(Len(results) < max_results /\ any(bs))
    THEN [results |-> results, rounds |-> i]
    ELSE LET r == merge_round(bs, i, results, max_results, FALSE)
         IN  IF ~r.advanced THEN [results |-> r.results, rounds |-> i + 1]
             ELSE merge_from(bs, i + 1, r.results, max_results)

round_robin(buckets, max_results) == merge_from(buckets, 0, <<>>, max_results).results

\* a faulty variant: the exception leaves the call
on_fatal_reraise(results, max_results) == [raised |-> TRUE, out |-> <<>>]

\* except Exception (lines 417-419), then the final trim: the call returns
on_fatal(results, max_results) == [raised |-> FALSE, out |-> Prefix(results, max_results)]

\* the arguments of a call; regions has one element whether global_mix is set
\* or not (lines 334-335), so the call fills one bucket
AggCalls ==
    {[phase |-> "ready", max_results |-> m, retries |-> r, backends |-> n,
      backend |-> 1, attempt |-> 0, got |-> <<>>, seen |-> {}, out |-> <<>>,
      tries |-> [b \in 1..n |-> 0], failures |-> 0, slept |-> 0,
      event |-> "call", offered |-> {}, raised |-> FALSE] :
        m \in 0..MaxResults, r \in 0..MaxRetries, n \in 1..MaxBackends}

\* what a backend query may do
AggAnswers ==
    {Answer(FALSE, rs) : rs \in SeqsUpTo(Hrefs \cup {NoHref}, MaxChunk)}
    \cup {Answer(TRUE, rs) : rs \in SeqsUpTo(Hrefs, 1)}

AggInit == NoRun /\ rcall = NoCall /\ fcall = NoFn /\ agg \in AggCalls

AggFrame ==
    UNCHANGED <<pc, cfg, articles, company_articles, selected, used_sources, post,
                critique, iteration, last, calls, error, returned, rcall, fcall>>

\* a faulty variant: the retry loop does not look at the attempt count
may_attempt_unbounded(a) == Len(a.got) < a.max_results * 2

\* the while condition of the retry loop
may_attempt(a) == a.attempt <= a.retries /\ Len(a.got) < a.max_results * 2

\* with DDGS() as ddgs: when the client cannot be made the except clause of
\* the call is reached with results empty
AggOpen ==
    /\ agg.phase = "ready"
    /\ \/ agg' = [agg EXCEPT !.phase = "loop", !.event = "open"]
       \/ LET r == on_fatal(<<>>, agg.max_results)
          IN  agg' = [agg EXCEPT !.phase = "done", !.event = "fatal",
                                 !.out = r.out, !.raised = r.raised]
    /\ AggFrame

\* one pass through the body of the retry loop up to break or to the backoff
AggAttempt ==
    /\ agg.phase = "loop"
    /\ agg.backend <= agg.backends
    /\ may_attempt(agg)
    /\ \E answer \in AggAnswers :
         LET r == fetch_block(answer, agg.seen, agg.max_results)
             b == agg.backend
             base == [agg EXCEPT !.seen = r.seen,
                                 !.tries[b] = @ + 1,
                                 !.offered = @ \cup {answer.results[i] :
                                                       i \in 1..Len(answer.results)}]
         IN  IF ~r.raised /\ r.block # <<>>
             THEN agg' = [base EXCEPT !.got = @ \o r.block, !.event = "chunk",
                                      !.backend = b + 1, !.attempt = 0]
             ELSE agg' = [base EXCEPT !.phase = "backoff", !.failures = @ + 1,
                                      !.event = IF r.raised THEN "failed" ELSE "empty"]
    /\ AggFrame

\* time.sleep(sleep_s); attempt += 1
AggBackoff ==
    /\ agg.phase = "backoff"
    /\ agg' = [agg EXCEPT !.phase = "loop", !.slept = @ + 1, !.attempt = @ + 1,
                          !.event = "backoff"]
    /\ AggFrame

\* the retry loop of a backend ends without break: on to the next backend
AggNextBackend ==
    /\ agg.phase = "loop"
    /\ agg.backend <= agg.backends
    /\ ~may_attempt(agg)
    /\ agg' = [agg EXCEPT !.backend = @ + 1, !.attempt = 0, !.event = "next"]
    /\ AggFrame

\* buckets.append(got_for_region), the round-robin merge and the final trim
AggMerge ==
    /\ agg.phase = "loop"
    /\ agg.backend > agg.backends
    /\ agg' = [agg EXCEPT !.phase = "done", !.event = "merged",
                          !.out = Prefix(round_robin(<<agg.got>>, agg.max_results),
                                         agg.max_results)]
    /\ AggFrame

AggNext == AggOpen \/ AggAttempt \/ AggBackoff \/ AggNextBackend \/ AggMerge

\* a call runs to its return: no statement of it blocks
AggSpec == AggInit /\ [][AggNext]_vars /\ WF_vars(AggNext)

-----------------------------------------------------------------------------
(* unique_by_url, the dedup of fetch_block, the round-robin merge and *)
(* search_articles called on their own *)

MaxDedup == 3      \* length of a list given to a dedup step

\* the dedup of fetch_block on a list of hrefs, seen being empty as at the
\* start of a call: the hrefs of the records of the block
dedup_by_norm(hrefs) ==
    LET block == fetch_block(Answer(FALSE, hrefs), {}, MaxDedup).block
    IN  [i \in 1..Len(block) |-> block[i].url]

\* documents that share URLs and differ in what else they hold
DedupDocs == {Doc(u, t) : u \in 0..2, t \in {StartTime, NowTime}}

FnCall(fn, in, arg) ==
    [fn |-> fn, phase |-> "ready", in |-> in, arg |-> arg, out |-> <<>>,
     again |-> <<>>]

DedupCalls ==
    {FnCall("unique_by_url", items, 0) : items \in SeqsUpTo(DedupDocs, MaxDedup)}
    \cup {FnCall("dedup_by_norm", hrefs, 0) :
            hrefs \in SeqsUpTo(Hrefs \cup {NoHref}, MaxDedup)}

dedup(fn, items) ==
    IF fn = "unique_by_url" THEN unique_by_url(items) ELSE dedup_by_norm(items)

FnFrame ==
    UNCHANGED <<pc, cfg, articles, company_articles, selected, used_sources, post,
                critique, iteration, last, calls, error, returned, rcall, agg>>

\* the dedup step on a list
Dedup ==
    /\ fcall.fn \in {"unique_by_url", "dedup_by_norm"}
    /\ fcall.phase = "ready"
    /\ fcall' = [fcall EXCEPT !.phase = "once", !.out = dedup(fcall.fn, fcall.in)]
    /\ FnFrame

\* the dedup step on its own output
DedupAgain ==
    /\ fcall.fn \in {"unique_by_url", "dedup_by_norm"}
    /\ fcall.phase = "once"
    /\ fcall' = [fcall EXCEPT !.phase = "twice", !.again = dedup(fcall.fn, fcall.out)]
    /\ FnFrame

MaxBuckets == 2     \* number of buckets given to the merge
MaxBucketLen == 2   \* length of a bucket

\* the records of three results
MergeItems == {WebItem(h) : h \in {u \in Hrefs : u.host # "A.com"}}

MergeCalls ==
    {FnCall("round_robin", buckets, m) :
        buckets \in SeqsUpTo(SeqsUpTo(MergeItems, MaxBucketLen), MaxBuckets),
        m \in 0..(MaxResults + 1)}

\* the round-robin merge and the final trim on a list of buckets; again is
\* the number of times the body of the while loop ran
Merge ==
    /\ fcall.fn = "round_robin"
    /\ fcall.phase = "ready"
    /\ fcall' = [fcall EXCEPT
                   !.phase = "once",
                   !.out = Prefix(round_robin(fcall.in, fcall.arg), fcall.arg),
                   !.again = merge_from(fcall.in, 0, <<>>, fcall.arg).rounds]
    /\ FnFrame

MaxArts == 3   \* number of results the news backend yields to one query

\* what the news backend may yield: results without URL (0) or timestamp
\* (0), before, within and after the window from StartTime to NowTime
FetchRawItems == {RawItem(u, t) : u \in 0..2, t \in 0..(NowTime + 1)}

FetchCalls ==
    {FnCall("search_articles", arts, m) :
        arts \in SeqsUpTo(FetchRawItems, MaxArts), m \in 0..MaxFetch}

\* search_articles with a credential and terms; again is its error
Fetch ==
    /\ fcall.fn = "search_articles"
    /\ fcall.phase = "ready"
    /\ LET r == search_articles(TRUE, TRUE, fcall.in, fcall.arg)
       IN  fcall' = [fcall EXCEPT !.phase = "once", !.out = r.items,
                                  !.again = <<r.error>>]
    /\ FnFrame

FnCalls == DedupCalls \cup MergeCalls \cup FetchCalls

FnInit == NoRun /\ rcall = NoCall /\ agg = NoAgg /\ fcall \in FnCalls

FnNext == Dedup \/ DedupAgain \/ Merge \/ Fetch

FnSpec == FnInit /\ [][FnNext]_vars

-----------------------------------------------------------------------------
(* truncate_under called on its own *)

MaxText == 7     \* length of a text given to truncate_under
MaxBudget == 6   \* largest max_chars given to truncate_under

\* the sentence ends of the pattern [\.!?]
Marks == {".", "!", "?"}

\* texts of letters, white space and one kind of sentence end
TruncTexts == UNION {SeqsUpTo({"a", " ", m}, MaxText) : m \in Marks}

TruncCalls ==
    {FnCall("truncate_under", text, b) : text \in TruncTexts, b \in 1..MaxBudget}

TruncInit == NoRun /\ rcall = NoCall /\ agg = NoAgg /\ fcall \in TruncCalls

\* truncate_under on a text
Truncate ==
    /\ fcall.phase = "ready"
    /\ fcall' = [fcall EXCEPT !.phase = "once",
                              !.out = truncate_under(fcall.in, fcall.arg)]
    /\ FnFrame

\* truncate_under on its own output, with the same budget
TruncateAgain ==
    /\ fcall.phase = "once"
    /\ fcall' = [fcall EXCEPT !.phase = "twice",
                              !.again = truncate_under(fcall.out, fcall.arg)]
    /\ FnFrame

TruncNext == Truncate \/ TruncateAgain

TruncSpec == TruncInit /\ [][TruncNext]_vars

-----------------------------------------------------------------------------
(* _LLM.chat called on its own *)

\* what a call of the backend does: it answers with a content (None when the
\* message has none) or raises
Completion(content) == [raises |-> "no", content |-> content]
Failure(e) == [raises |-> e, content |-> "None"]

\* chat.completions.create: a text, no content, an error of the backend, a
\* response without choices, a client that has no such attribute
ModernOutcomes ==
    {Completion("modern text"), Completion("None"), Completion(""),
     Failure("APIError"), Failure("IndexError"), Failure("AttributeError")}

\* ChatCompletion.create: a text, no content, an error of the backend, a
\* client that has no such attribute, a response without the keys read
LegacyOutcomes ==
    {Completion("legacy text"), Completion("None"), Failure("APIError"),
     Failure("AttributeError"),
     Failure("KeyError")}

ChatCalls ==
    [fn : {"chat"}, phase : {"ready"}, prompt : {"rank", "draft", "verify", "revise"},
     as_json : BOOLEAN, modern : ModernOutcomes, legacy : LegacyOutcomes,
     made : {<<>>}, e : {"None"}, out : {"None"}, raised : {"None"},
     message : {"None"}]

ChatInit == NoRun /\ rcall = NoCall /\ agg = NoAgg /\ fcall \in ChatCalls

\* the outer try: the modern call; its content or "" is returned, an
\* exception is kept as e
chat_modern(c) ==
    IF c.modern.raises = "no"
    THEN [c EXCEPT !.phase = "returned", !.made = Append(c.made, "modern"),
                   !.out = IF c.modern.content = "None" THEN "" ELSE c.modern.content]
    ELSE [c EXCEPT !.phase = "fallback", !.made = Append(c.made, "modern"),
                   !.e = c.modern.raises]

\* a faulty variant: the error raised carries the legacy call's failure
chat_legacy_own_error(c) ==
    IF c.legacy.raises = "no"
    THEN [c EXCEPT !.phase = "returned", !.made = Append(c.made, "legacy"),
                   !.out = c.legacy.content]
    ELSE [c EXCEPT !.phase = "raised", !.made = Append(c.made, "legacy"),
                   !.raised = "RuntimeError", !.message = c.legacy.raises]

\* the except branch: the legacy call; its content is returned, an exception
\* becomes RuntimeError(f"OpenAI API call failed: {str(e)}")
chat_legacy(c) ==
    IF c.legacy.raises = "no"
    THEN [c EXCEPT !.phase = "returned", !.made = Append(c.made, "legacy"),
                   !.out = c.legacy.content]
    ELSE [c EXCEPT !.phase = "raised", !.made = Append(c.made, "legacy"),
                   !.raised = "RuntimeError", !.message = c.e]

ChatModern ==
    /\ fcall.phase = "ready"
    /\ fcall' = chat_modern(fcall)
    /\ FnFrame

ChatLegacy ==
    /\ fcall.phase = "fallback"
    /\ fcall' = chat_legacy(fcall)
    /\ FnFrame

ChatNext == ChatModern \/ ChatLegacy

ChatSpec == ChatInit /\ [][ChatNext]_vars

-----------------------------------------------------------------------------
(* Properties *)

\* the numbers of a marker that are positions 1..n of a selected document
RECURSIVE Positions(_, _)
Positions(numbers, n) ==
    IF numbers = <<>> THEN <<>>
    ELSE (IF Head(numbers) \in 1..n THEN <<Head(numbers)>> ELSE <<>>)
         \o Positions(Tail(numbers), n)

NoRepeat(s) == \A i, j \in 1..Len(s) : i # j => s[i] # s[j]

\* the pool node_rank selected from
Pool == candidate_pool(articles, company_articles)

\* node_rank has just run, the backend having answered it
Ranked == last.node = "rank" /\ last.raw # ChatFailed /\ articles # <<>>

\* the answer to the ranking prompt is no JSON, or JSON without a list-valued
\* top_indices
MalformedSelection ==
    \/ last.raw.kind = "text"
    \/ /\ last.raw.kind = "json"
       /\ ~(/\ last.raw.value.type = "object"
            /\ last.raw.value.value.top_indices.type = "list")

\* render_output has returned, the sources block appended
RenderedWithSources ==
    /\ rcall.phase = "done"
    /\ sources_section(rcall.used, rcall.fmt, rcall.include_sources) # <<>>

RenderedSection == sources_section(rcall.used, rcall.fmt, rcall.include_sources)

\* the rendered text is a body part of at most max_chars characters, left
\* as it was when it fitted, followed by the whole sources block
BodyThenWholeSection ==
    LET sec == RenderedSection
        out == rcall.out
        body == prepared_body(rcall.body, rcall.used, rcall.fmt)
        part == SubSeq(out, 1, Len(out) - Len(sec))
    IN  /\ Len(out) >= Len(sec)
        /\ SubSeq(out, Len(out) - Len(sec) + 1, Len(out)) = sec
        /\ Len(part) <= rcall.max_chars
        /\ Len(body) <= rcall.max_chars =>
             part = IF rcall.fmt = "markdown" THEN rstrip(body) ELSE body

\* the backend raised on the last call (_LLM.chat's RuntimeError)
BackendFailed ==
    /\ pc = "failed"
    /\ last.node \in {"draft", "verify", "revise"}
    /\ last.raw = ChatFailed

\* What holds of C1: a run makes at most max_iterations + 1 verify calls and
\* at most max_iterations revise calls, whatever the verifier answers, and a
\* run that ends normally has verified once more than it has revised.
Loop_Bounded ==
    /\ calls.verify <= cfg.max_iterations + 1
    /\ calls.revise <= cfg.max_iterations
    /\ pc # "failed" => calls.revise = iteration
    /\ pc \in {"END", "done"} => calls.verify = calls.revise + 1
    /\ pc = "revise" => calls.verify = calls.revise + 1
    /\ pc = "verify" => calls.verify = calls.revise

\* C1: for every max_iterations >= 0 and whatever the verifier answers, a
\* run that has drafted reaches done, unless the backend itself fails, after
\* at most max_iterations + 1 verify calls and max_iterations revise calls.
C1_ReachesDoneWithinBound ==
    /\ [](calls.verify <= cfg.max_iterations + 1 /\ calls.revise <= cfg.max_iterations)
    /\ (pc = "verify") ~> (pc = "done" \/ BackendFailed)

\* C2: after a verify step the run goes to revise exactly when the critique
\* is non-empty and iteration < max_iterations, and ends otherwise; so at
\* the end the critique is empty or the cap is reached, and a draft still
\* flagged at the cap is returned, not an error.
C2_VerifyRouting ==
    /\ [][(pc = "verify" /\ pc' # "failed") =>
            /\ pc' \in {"revise", "END"}
            /\ (pc' = "revise") <=>
                 (critique' # None /\ critique' # "" /\ iteration < cfg.max_iterations)]_vars
    /\ [](pc \in {"END", "done"} =>
            /\ (critique = None \/ iteration >= cfg.max_iterations)
            /\ error = None)
    /\ [](pc = "done" => returned = strip(post))

\* C2 witness: a run ended at the cap with the draft still flagged, and
\* returned it
C2_Witness ==
    /\ pc = "done"
    /\ critique # None
    /\ cfg.max_iterations >= 1
    /\ iteration = cfg.max_iterations
    /\ returned = strip(post)
    /\ returned # <<>>

\* C3: with the links included and counted, the whole rendered text, the
\* sources block included, has at most max_chars characters.
C3_TotalWithinBudget ==
    (RenderedWithSources /\ rcall.links_in_char_limit) =>
        Len(rcall.out) <= rcall.max_chars

C5_ExactlyKValidIndices ==
    (Ranked /\ Len(Pool) >= cfg.top_k) =>
        /\ pc = "draft"
        /\ Len(last.idxs) = cfg.top_k
        /\ \A i \in 1..Len(last.idxs) : 0 <= last.idxs[i] /\ last.idxs[i] < Len(Pool)

\* What holds of C5: when node_rank returns at all, it returns exactly top_k
\* indices, each within the pool.
Selector_ReturnsKValidIndices ==
    (Ranked /\ Len(Pool) >= cfg.top_k /\ pc = "draft") =>
        /\ Len(last.idxs) = cfg.top_k
        /\ Len(selected) = cfg.top_k
        /\ \A i \in 1..Len(last.idxs) :
             /\ 0 <= last.idxs[i] /\ last.idxs[i] < Len(Pool)
             /\ selected[i] = Pool[last.idxs[i] + 1]

\* C6: node_rank never selects the same index, or the same document, twice.
C6_NoDuplicateIndex ==
    (Ranked /\ pc = "draft") => NoRepeat(last.idxs) /\ NoRepeat(selected)

\* C7: when the answer is no JSON, or JSON without a list-valued
\* top_indices, node_rank does not raise and selects the indices 0..top_k-1
\* in ascending order.
C7_MalformedFallsBack ==
    (Ranked /\ Len(Pool) >= cfg.top_k /\ MalformedSelection) =>
        /\ pc = "draft"
        /\ error = None
        /\ last.idxs = [i \in 1..cfg.top_k |-> i - 1]

\* What holds of C7: the fallback is taken when the answer is no JSON or a
\* JSON object without a list-valued top_indices.
Selector_FallsBackOnObjects ==
    (/\ Ranked /\ Len(Pool) >= cfg.top_k /\ MalformedSelection
     /\ (last.raw.kind = "json" => last.raw.value.type = "object")) =>
        /\ pc = "draft"
        /\ error = None
        /\ last.idxs = [i \in 1..cfg.top_k |-> i - 1]

\* C8: when search_articles returns no document, the run ends with the
\* RuntimeError of node_rank: the backend is never called, no draft, verify
\* or revise step runs, and nothing is returned.
C8_EmptyFetchIsFatal ==
    (/\ calls.search = 1 /\ articles = <<>>
     /\ ~(pc = "failed" /\ last.node = "search")) =>
        /\ pc \in {"search_companies", "rank", "failed"}
        /\ calls.rank = 1 <=> pc = "failed"
        /\ pc = "failed" => (error = "RuntimeError" /\ last.node = "rank")
        /\ calls.llm = 0 /\ calls.draft = 0 /\ calls.verify = 0 /\ calls.revise = 0
        /\ selected = <<>> /\ post = <<>> /\ returned = None

\* C8 witness: the backend was queried, returned nothing usable, and the run
\* failed in node_rank
C8_Witness ==
    /\ pc = "failed"
    /\ last.node = "rank"
    /\ articles = <<>>
    /\ cfg.has_key /\ cfg.has_terms
    /\ error = "RuntimeError"
    /\ calls.llm = 0

\* C9: after node_draft, used_sources is the selected documents at the
\* marker's numbers that lie in 1..N, in the marker's order, and all N
\* selected documents when there is no marker or no such number.
C9_DraftUsedSources ==
    (last.node = "draft" /\ pc # "failed") =>
        LET kept == Positions(last.raw.numbers, Len(selected))
        IN  used_sources =
                IF last.raw.has_marker /\ kept # <<>>
                THEN [i \in 1..Len(kept) |-> selected[kept[i]]]
                ELSE selected

\* C9 witness: a marker with a number out of range and one in range, which
\* alone is kept
C9_Witness ==
    /\ last.node = "draft" /\ pc = "verify"
    /\ Len(selected) = 2
    /\ last.raw.has_marker
    /\ last.raw.numbers = <<3, 2>>
    /\ used_sources = <<selected[2]>>

\* C10: after node_revise, used_sources is the used_sources of before when
\* there is no marker or no number in 1..N after it, and else the selected
\* documents at the marker's numbers that lie in 1..N.
C10_ReviseUsedSources ==
    (last.node = "revise" /\ pc # "failed") =>
        LET kept == Positions(last.raw.numbers, Len(selected))
        IN  used_sources =
                IF last.raw.has_marker /\ kept # <<>>
                THEN [i \in 1..Len(kept) |-> selected[kept[i]]]
                ELSE last.used_before

\* C10 witness: a revision without marker kept a used_sources that is not
\* the whole selection
C10_Witness ==
    /\ last.node = "revise" /\ pc = "verify"
    /\ ~last.raw.has_marker
    /\ Len(selected) = 2
    /\ last.used_before = <<selected[2]>>
    /\ selected[1] # selected[2]
    /\ used_sources = last.used_before

\* C11: every verify step, also one that follows a revise, is entered from a
\* draft or revise step only, and the fact sheet it checks the post against
\* is the one of the used_sources that step wrote, never the one of the
\* selected documents or of the candidate pool.
C11_VerifyChecksUsedSources ==
    /\ [][(pc' = "verify" /\ pc # "verify") =>
            /\ pc \in {"draft", "revise"}
            /\ last'.node = pc]_vars
    /\ [][(pc = "verify") =>
            /\ last'.node = "verify"
            /\ last'.facts = build_fact_sheet(used_sources)
            /\ used_sources' = used_sources]_vars

\* C11 witness: a verify step after a revise checked the post against a
\* used_sources that is not the whole selection
C11_Witness ==
    /\ last.node = "verify"
    /\ calls.revise >= 1
    /\ Len(used_sources) = 1
    /\ Len(selected) = 2
    /\ selected[1] # selected[2]
    /\ last.facts = build_fact_sheet(used_sources)
    /\ last.facts # build_fact_sheet(selected)

\* the verdict node_verify parsed from the answer: the "verdict" string of a
\* JSON object trimmed and lower-cased, "" when there is none
ParsedVerdict ==
    LET data == extract_json(last.raw)
    IN  IF data.type = "object" /\ data.value.verdict.type = "str_text"
        THEN strip_lower(data.value.verdict.value)
        ELSE ""

\* the critique the answer gives: the "critique" string of a JSON object
GivenCritique ==
    LET data == extract_json(last.raw)
    IN  IF data.type = "object" /\ data.value.critique.type = "str_text"
        THEN data.value.critique.value
        ELSE ""

\* node_verify has just run, the backend having answered it
Verified == last.node = "verify" /\ last.raw # ChatFailed

\* what node_verify is to store for the answer it got
VerdictStored ==
    /\ pc # "failed"
    /\ error = None
    /\ critique = None <=> ParsedVerdict = "approve"
    /\ ParsedVerdict # "approve" =>
         /\ critique # ""
         /\ critique = IF GivenCritique # "" THEN GivenCritique ELSE GenericCritique

\* C12: whatever the backend answers the verification prompt, node_verify
\* does not raise; it stores no critique exactly when the parsed verdict,
\* trimmed and lower-cased, is "approve", and else the answer's critique or,
\* when there is none, the generic one.
C12_VerifierNeverRaises == Verified => VerdictStored

\* What holds of C12: the same for every answer that is no JSON at all or a
\* JSON object.
Verifier_StoresVerdictOfObjects ==
    (Verified /\ extract_json(last.raw).type = "object") => VerdictStored

\* two hrefs that differ at most by scheme, a leading "www.", the case of
\* the host, trailing slashes of the path and the query string
SameAddress(u, v) == lower(u.host) = lower(v.host) /\ u.path = v.path

NoSameAddress(items) ==
    \A i, j \in 1..Len(items) : i # j => ~SameAddress(items[i].url, items[j].url)

\* C13: search_companies_web returns at most max_results records, no two of
\* them with the same normalized URL; the records collected over all
\* backends and attempts of the call never hold two such either.
C13_AtMostMaxResultsDistinct ==
    /\ NoSameAddress(agg.got)
    /\ agg.phase = "done" =>
         /\ Len(agg.out) <= agg.max_results
         /\ NoSameAddress(agg.out)
         /\ \A i \in 1..Len(agg.out) : agg.out[i].url # NoHref

\* C13 witness: a call that retried, was offered two hrefs of the same
\* address and returned max_results records
C13_Witness ==
    /\ agg.phase = "done"
    /\ agg.failures >= 1
    /\ \E u, v \in agg.offered : u # v /\ u # NoHref /\ v # NoHref /\ SameAddress(u, v)
    /\ agg.max_results = 2
    /\ Len(agg.out) = 2

\* the key a dedup step compares: the URL of a document, the address of an
\* href
DedupKey(fn, x) ==
    IF fn = "unique_by_url" THEN <<x.url>> ELSE <<lower(x.host), x.path>>

HasKey(fn, x) == IF fn = "unique_by_url" THEN x.url # 0 ELSE x # NoHref

\* the items of a list that have a key no earlier item has, in their order
RECURSIVE FirstOccurrences(_, _, _)
FirstOccurrences(fn, items, i) ==
    IF i > Len(items) THEN <<>>
    ELSE (IF /\ HasKey(fn, items[i])
             /\ \A j \in 1..(i - 1) : DedupKey(fn, items[j]) # DedupKey(fn, items[i])
          THEN <<items[i]>> ELSE <<>>)
         \o FirstOccurrences(fn, items, i + 1)

\* C14: a dedup step (unique_by_url, and the normalized-URL dedup of the
\* aggregator) keeps the first occurrence of every key, in order, and gives
\* its own output back unchanged.
C14_DedupIdempotent ==
    fcall.fn \in {"unique_by_url", "dedup_by_norm"} =>
        /\ fcall.phase \in {"once", "twice"} =>
             fcall.out = FirstOccurrences(fcall.fn, fcall.in, 1)
        /\ fcall.phase = "twice" => fcall.again = fcall.out

\* C14 witness: a list with a repeated key was deduplicated twice
C14_Witness ==
    /\ fcall.fn = "dedup_by_norm"
    /\ fcall.phase = "twice"
    /\ Len(fcall.in) = 3
    /\ Len(fcall.out) = 2
    /\ DedupKey(fcall.fn, fcall.in[1]) = DedupKey(fcall.fn, fcall.in[3])
    /\ fcall.in[1] # fcall.in[3]
    /\ fcall.out[1] = fcall.in[1]
    /\ fcall.again = fcall.out

\* C15: each backend of the (one) region is attempted at most retries + 1
\* times; an attempt that raises or yields nothing is followed at once by
\* the backoff sleep, so that no attempt starts with a backoff outstanding;
\* a backend whose attempts are used up adds no record and the call goes on
\* to the next backend, every backend gets its turn unless enough records
\* are collected, and the call returns.
C15_BoundedRetriesWithBackoff ==
    /\ [](agg.phase # "none" =>
            \A b \in 1..agg.backends : agg.tries[b] <= agg.retries + 1)
    /\ [][agg.phase = "backoff" =>
            agg'.slept = agg.slept + 1 /\ agg'.tries = agg.tries]_vars
    /\ [][agg'.tries # agg.tries =>
            /\ agg.slept = agg.failures
            /\ agg'.event \in {"failed", "empty"} <=> agg'.phase = "backoff"]_vars
    /\ [][(/\ agg.phase = "loop" /\ agg.backend <= agg.backends
           /\ agg.attempt > agg.retries) =>
            /\ agg'.phase = "loop"
            /\ agg'.backend = agg.backend + 1
            /\ agg'.got = agg.got]_vars
    /\ []((agg.phase = "done" /\ agg.event = "merged") =>
            /\ ~agg.raised
            /\ agg.slept = agg.failures
            /\ \A b \in 1..agg.backends :
                 agg.tries[b] >= 1 \/ Len(agg.got) >= agg.max_results * 2)
    /\ (agg.phase = "loop") ~> (agg.phase = "done")

\* C15 witness: the first backend failed retries + 1 times, each time with a
\* backoff, and the second backend's records were returned
C15_Witness ==
    /\ agg.phase = "done"
    /\ agg.retries = MaxRetries
    /\ agg.backends = 2
    /\ agg.tries[1] = agg.retries + 1
    /\ agg.tries[2] = 1
    /\ agg.failures = agg.retries + 1
    /\ agg.slept = agg.retries + 1
    /\ Len(agg.out) >= 1

\* every attempt of the call raised or yielded nothing
EveryAttemptFailed == agg.got = <<>> /\ agg.event = "merged"

\* C16: when the search client cannot be made, or every attempt at every
\* backend fails, search_companies_web returns the empty list; no call ever
\* ends with an exception, and every call returns.
C16_TotalFailureReturnsEmpty ==
    /\ [](agg.phase # "none" => ~agg.raised)
    /\ []((agg.phase = "done" /\ (agg.event = "fatal" \/ EveryAttemptFailed)) =>
            agg.out = <<>>)
    /\ (agg.phase = "ready") ~> (agg.phase = "done")

\* C16 witness: every backend was attempted retries + 1 times, every attempt
\* failed, and the call returned the empty list
C16_Witness ==
    /\ agg.phase = "done"
    /\ EveryAttemptFailed
    /\ agg.max_results >= 1
    /\ agg.backends = MaxBackends
    /\ \A b \in 1..agg.backends : agg.tries[b] = agg.retries + 1
    /\ agg.failures = agg.backends * (agg.retries + 1)
    /\ agg.out = <<>>
    /\ ~agg.raised

MaxLen(buckets) ==
    IF buckets = <<>> THEN 0
    ELSE LET lens == {Len(buckets[b]) : b \in 1..Len(buckets)}
         IN  CHOOSE n \in lens : \A k \in lens : k <= n

\* item i of every bucket that has one, in bucket order
RECURSIVE Round(_, _)
Round(buckets, i) ==
    IF buckets = <<>> THEN <<>>
    ELSE (IF i <= Len(Head(buckets)) THEN <<Head(buckets)[i]>> ELSE <<>>)
         \o Round(Tail(buckets), i)

\* round i, then round i + 1, ... up to the longest bucket
RECURSIVE Interleaving(_, _)
Interleaving(buckets, i) ==
    IF i > MaxLen(buckets) THEN <<>>
    ELSE Round(buckets, i) \o Interleaving(buckets, i + 1)

Total(buckets) == Len(Interleaving(buckets, 1))

\* C17: the merge returns the first min(max_results, total) records of the
\* round-robin interleaving of the buckets, and its loop ends after at most
\* one pass more than the longest bucket has items.
C17_RoundRobinMerge ==
    (fcall.fn = "round_robin" /\ fcall.phase = "once") =>
        /\ fcall.out = SubSeq(Interleaving(fcall.in, 1), 1,
                              Min(fcall.arg, Total(fcall.in)))
        /\ fcall.again <= MaxLen(fcall.in) + 1

\* C17 witness: two buckets of different lengths, merged up to a count that
\* stops the merge before the buckets are exhausted
C17_Witness ==
    /\ fcall.fn = "round_robin" /\ fcall.phase = "once"
    /\ Len(fcall.in) = 2
    /\ Len(fcall.in[1]) = 2 /\ Len(fcall.in[2]) = 1
    /\ fcall.in[1][1] # fcall.in[2][1] /\ fcall.in[1][2] # fcall.in[2][1]
    /\ fcall.arg = 2
    /\ fcall.out = <<fcall.in[1][1], fcall.in[2][1]>>

\* the mapping m has exactly one key per entry of focus
OneKeyPerEntity(m, focus) ==
    /\ Len(m) = Len(focus)
    /\ \A i \in 1..Len(focus) : m[i].name = focus[i]
    /\ \A i, j \in 1..Len(m) : i # j => m[i].name # m[j].name

\* C18: with company search enabled and entities declared,
\* node_search_companies returns one key per entity; an entity whose search
\* raised or found nothing maps to the empty list, the other entities keep
\* what their own search found, the node does not raise and the run goes on
\* to node_rank, where the mapping still has one key per entity.
C18_OneKeyPerEntity ==
    /\ [][pc = "search_companies" =>
            /\ pc' = "rank"
            /\ error' = None
            /\ (cfg.enable_company_search /\ cfg.company_focus # <<>>) =>
                 LET outs == last'.raw.value.web
                 IN  /\ OneKeyPerEntity(company_articles', cfg.company_focus)
                     /\ \A i \in 1..Len(cfg.company_focus) :
                          /\ (outs[i].raised \/ outs[i].results = <<>>) =>
                               company_articles'[i].docs = <<>>
                          /\ Len(company_articles'[i].docs) =
                               Cardinality({k \in 1..Len(outs[i].results) :
                                              outs[i].results[k].relevance # "none"})]_vars
    /\ []((pc # "search_companies" /\ cfg.enable_company_search
           /\ cfg.company_focus # <<>>) =>
            OneKeyPerEntity(company_articles, cfg.company_focus))

\* C18 witness: the search of the first entity raised, the one of the second
\* found documents, and the run is at node_rank
C18_Witness ==
    /\ pc = "rank"
    /\ last.node = "search_companies"
    /\ Len(cfg.company_focus) = 2
    /\ cfg.enable_company_search
    /\ last.raw.value.web[1].raised
    /\ company_articles[1].docs = <<>>
    /\ company_articles[2].docs # <<>>

C20_MissingCredentialIsFatal ==
    ~cfg.has_key =>
        /\ pc \in {"search", "failed"}
        /\ pc = "failed" <=> calls.search = 1
        /\ calls.search <= 1
        /\ calls.query = 0
        /\ pc = "failed" => (error = "RuntimeError" /\ last.node = "search")
        /\ calls.llm = 0 /\ calls.rank = 0 /\ calls.draft = 0
        /\ calls.verify = 0 /\ calls.revise = 0
        /\ articles = <<>> /\ company_articles = <<>> /\ selected = <<>>
        /\ post = <<>> /\ returned = None

\* C20 witness: a run without credential and without terms has failed in
\* node_search
C20_Witness ==
    /\ pc = "failed"
    /\ ~cfg.has_key /\ ~cfg.has_terms
    /\ cfg.company_focus # <<>>
    /\ last.node = "search"
    /\ error = "RuntimeError"
    /\ calls.query = 0

\* the positions of the sentence ends in s
MarkEnds(s) == {i \in 1..Len(s) : s[i] \in Marks}

\* the reference rule of truncation for a budget > 0
TruncateRule(text, budget) ==
    IF Len(text) <= budget THEN text
    ELSE LET prefix == SubSeq(text, 1, budget - 1)
             beyond == {i \in MarkEnds(prefix) :
                          /\ \A j \in MarkEnds(prefix) : j <= i
                          /\ 10 * i > 6 * budget}
         IN  IF beyond # {}
             THEN strip(SubSeq(prefix, 1, CHOOSE i \in beyond : TRUE))
             ELSE strip(prefix)

\* C21: for a budget > 0 truncate_under returns what the reference rule
\* gives (the text itself when it fits, else the prefix of budget - 1
\* characters, cut after its last sentence end when that lies beyond 60% of
\* the budget, stripped); the result has at most budget characters and
\* truncating it again changes nothing.
C21_TruncateIsReferenceRule ==
    /\ fcall.phase \in {"once", "twice"} =>
          /\ fcall.out = TruncateRule(fcall.in, fcall.arg)
          /\ Len(fcall.out) <= fcall.arg
    /\ fcall.phase = "twice" => fcall.again = fcall.out

\* C21 witness: a text longer than the budget was cut after a sentence end
\* inside the prefix, and truncated a second time
C21_Witness ==
    /\ fcall.fn = "truncate_under"
    /\ fcall.phase = "twice"
    /\ Len(fcall.in) > fcall.arg
    /\ fcall.out # <<>>
    /\ fcall.out[Len(fcall.out)] \in Marks
    /\ Len(fcall.out) < fcall.arg - 1
    /\ fcall.out # strip(SubSeq(fcall.in, 1, fcall.arg - 1))

\* C22: a call of the backend tries the modern convention first and the
\* legacy one only after the modern one failed; the modern text is returned
\* without a legacy call, else the legacy text, and only when both failed is
\* an error raised, one RuntimeError carrying the modern call's failure.
C22_BothConventionsTried ==
    /\ fcall.made \in {<<>>, <<"modern">>, <<"modern", "legacy">>}
    /\ fcall.phase = "ready" <=> fcall.made = <<>>
    /\ fcall.phase = "fallback" => (fcall.made = <<"modern">> /\ fcall.modern.raises # "no")
    /\ fcall.phase = "returned" =>
          /\ fcall.raised = "None"
          /\ IF fcall.modern.raises = "no"
             THEN /\ fcall.made = <<"modern">>
                  /\ fcall.out = IF fcall.modern.content = "None" THEN ""
                                 ELSE fcall.modern.content
             ELSE /\ fcall.made = <<"modern", "legacy">>
                  /\ fcall.legacy.raises = "no"
                  /\ fcall.out = fcall.legacy.content
    /\ fcall.phase = "raised" =>
          /\ fcall.made = <<"modern", "legacy">>
          /\ fcall.modern.raises # "no" /\ fcall.legacy.raises # "no"
          /\ fcall.raised = "RuntimeError"
          /\ fcall.message = fcall.modern.raises
          /\ fcall.out = "None"

\* C22 witness: both calls failed, with different errors, and the error of
\* the modern one was raised
C22_Witness ==
    /\ fcall.fn = "chat"
    /\ fcall.phase = "raised"
    /\ fcall.modern.raises = "APIError"
    /\ fcall.legacy.raises = "AttributeError"
    /\ fcall.message = "APIError"

\* a draft or revise step that wrote a post
WroteStep == pc \in {"draft", "revise"} /\ pc' = "verify"

\* C23: the post is written by the draft and revise steps only, each time as
\* the rendering of what the backend wrote in that step, and a run returns
\* the post as it stands at the end, stripped: the text of the last draft or
\* revise step, never an earlier one and never the verifier's critique.
C23_ReturnsLastWrittenPost ==
    [][/\ WroteStep =>
            /\ last'.node = pc
            /\ post' = rendered(cfg, strip(last'.raw.body), used_sources')
       /\ ~WroteStep => post' = post
       /\ returned' # returned =>
            /\ pc = "END" /\ pc' = "done"
            /\ returned = None
            /\ returned' = strip(post)
            /\ last.node = "verify"
       /\ pc = "done" => returned = strip(post)]_vars

\* C23 witness: a run that revised its draft after a critique has returned
\* the text it holds, the last critique still standing
C23_Witness ==
    /\ pc = "done"
    /\ calls.revise >= 1
    /\ critique # None
    /\ returned = strip(post)
    /\ returned # <<>>

\* the order of the stages: who may follow whom
StageOrder ==
    {<<"search", "search_companies">>, <<"search_companies", "rank">>,
     <<"rank", "draft">>, <<"draft", "verify">>, <<"verify", "revise">>,
     <<"revise", "verify">>, <<"verify", "END">>}

\* C24: the stages of a run follow one another in the order search, company
\* search, selection, draft, verify, then pairs of revise and verify, then
\* the end: every step runs the stage the run stands at and leads to a
\* stage that may follow it (or fails), a revise is followed by a verify
\* only, the end is reached from a verify only, and a run that returned ran
\* every stage before the loop once and one verify more than revises, the
\* last verify after the last change of the post.
C24_StagesInOrder ==
    [][/\ pc \notin {"done", "failed"}
       /\ pc = "END" => pc' = "done"
       /\ pc # "END" =>
            /\ last'.node = pc
            /\ pc' = "failed" \/ <<pc, pc'>> \in StageOrder
            /\ pc # "search_companies" => calls'[pc] = calls[pc] + 1
            /\ \A n \in {"search", "rank", "draft", "verify", "revise"} \ {pc} :
                  calls'[n] = calls[n]
       /\ pc = "revise" => pc' \in {"verify", "failed"}
       /\ pc' = "END" => pc = "verify"
       /\ pc' = "done" =>
            /\ last'.node = "verify"
            /\ calls'.search = 1 /\ calls'.rank = 1 /\ calls'.draft = 1
            /\ calls'.verify = calls'.revise + 1
            /\ post' = post /\ used_sources' = used_sources
            /\ last'.used_before = used_sources']_vars

\* C24 witness: a run with two revisions has returned: search, company
\* search, selection, draft, verify, revise, verify, revise, verify, done
C24_Witness ==
    /\ pc = "done"
    /\ calls.search = 1 /\ calls.rank = 1 /\ calls.draft = 1
    /\ calls.revise = 2 /\ calls.verify = 3
    /\ last.node = "verify"
    /\ returned # None

\* the index list of the answer node_rank got: the integers of top_indices,
\* none when the answer is an object without a list-valued top_indices or no
\* JSON at all
ModelIndices ==
    LET data == extract_json(last.raw)
        top == data.value.top_indices
    IN  IF top.type = "list" THEN int_items(top.value) ELSE <<>>

\* the indices of idxs that lie in a pool of n documents, in their order
ValidOf(idxs, n) == SelectSeq(idxs, LAMBDA i : i \in 0..(n - 1))

\* chosen, with the lowest indices of the pool not in it appended one by one
\* until k are present or none is left
RECURSIVE PaddedTo(_, _, _)
PaddedTo(chosen, n, k) ==
    LET free == (0..(n - 1)) \ {chosen[i] : i \in 1..Len(chosen)}
    IN  IF Len(chosen) >= k \/ free = {} THEN chosen
        ELSE PaddedTo(Append(chosen, CHOOSE i \in free : \A j \in free : i <= j), n, k)

\* the repair of an index list for a pool of n documents and k wanted
RepairRule(idxs, n, k) ==
    LET valid == ValidOf(idxs, n)
    IN  IF Len(valid) >= k THEN SubSeq(valid, 1, k) ELSE PaddedTo(valid, n, k)

\* C25: the indices node_rank returns are a function of the index list of
\* the answer and of the pool size: the in-range indices in the answer's
\* order, cut to the first top_k when there are that many, else followed by
\* the lowest indices of the pool not among them, ascending, until top_k are
\* present; the documents selected are the pool's documents at them.
C25_RepairIsReferenceRule ==
    (Ranked /\ pc = "draft") =>
        /\ last.idxs = RepairRule(ModelIndices, Len(Pool), cfg.top_k)
        /\ selected = [i \in 1..Len(last.idxs) |-> Pool[last.idxs[i] + 1]]

\* C25 witness: of two indices answered one was out of range and the other
\* was 0; the padding skipped 0 and added 1
C25_Witness ==
    /\ Ranked /\ pc = "draft"
    /\ cfg.top_k = 2
    /\ Len(ModelIndices) = 2
    /\ ValidOf(ModelIndices, Len(Pool)) = <<0>>
    /\ last.idxs = <<0, 1>>

\* the positions of the pool after the primary documents
Appended == (Len(articles) + 1)..Len(Pool)

\* C26: the pool node_rank selects from is the fetched articles, in their
\* order and untouched, followed by documents taken from the first two of a
\* company's search results and tagged with that company, at most two per
\* company; every document of the pool has a URL and no two share one.
C26_PoolIsPrimaryThenEntityDocs ==
    Ranked =>
        /\ Len(Pool) >= Len(articles)
        /\ SubSeq(Pool, 1, Len(articles)) = articles
        /\ \A i \in Appended :
             \E c \in 1..Len(company_articles) :
                /\ Pool[i].company_related = company_articles[c].name
                /\ \E j \in 1..Min(2, Len(company_articles[c].docs)) :
                      company_articles[c].docs[j] = Pool[i]
        /\ \A c \in 1..Len(company_articles) :
             Cardinality({i \in Appended :
                            Pool[i].company_related = company_articles[c].name}) <= 2
        /\ \A i \in 1..Len(Pool) : Pool[i].url # 0
        /\ NoRepeat(Urls(Pool))

\* C26 witness: two companies, the first found a URL the articles hold and a
\* new one, the second found the same new one: the pool grew by one document
C26_Witness ==
    /\ Ranked
    /\ Len(company_articles) = 2
    /\ Len(company_articles[1].docs) = 2
    /\ company_articles[1].docs[2].url \in {articles[i].url : i \in 1..Len(articles)}
    /\ company_articles[2].docs # <<>>
    /\ company_articles[2].docs[1].url = company_articles[1].docs[1].url
    /\ Len(Pool) = Len(articles) + 1

\* node_draft has run and returned
Drafted == calls.draft >= 1 /\ ~(pc = "failed" /\ last.node = "draft")

\* C27: from the draft step on, after it and after every revise step, every
\* document of used_sources is a selected document and used_sources is not
\* empty when the selection is not, whatever numbers the marker holds.
C27_UsedSourcesWithinSelected ==
    /\ Drafted =>
          /\ \A i \in 1..Len(used_sources) : InSeq(used_sources[i], selected)
          /\ selected # <<>> => used_sources # <<>>
    /\ ~Drafted => used_sources = <<>>

\* C27 witness: a revision whose marker holds only numbers out of range has
\* left used_sources a non-empty part of the selection
C27_Witness ==
    /\ last.node = "revise" /\ pc = "verify"
    /\ last.raw.has_marker
    /\ last.raw.numbers # <<>>
    /\ Positions(last.raw.numbers, Len(selected)) = <<>>
    /\ used_sources # <<>>
    /\ Len(used_sources) < Len(selected)
    /\ \A i \in 1..Len(used_sources) : InSeq(used_sources[i], selected)

\* a revise step that returned
RevisedStep == pc = "revise" /\ pc' # "failed"

\* C28: iteration lies between 0 and max_iterations in every state of a run;
\* it is 0 until the first revise step, a revise step that returns adds
\* exactly 1 to it and no other step changes it.
C28_IterationWithinBound ==
    /\ [](/\ 0 <= iteration /\ iteration <= cfg.max_iterations
          /\ calls.revise = 0 => iteration = 0
          /\ pc \in {"search", "search_companies", "rank", "draft"} => iteration = 0)
    /\ [][/\ RevisedStep => iteration' = iteration + 1
          /\ ~RevisedStep => iteration' = iteration]_vars

\* C28 witness: a run has returned after max_iterations = 2 revisions, the
\* last critique still standing
C28_Witness ==
    /\ pc = "done"
    /\ cfg.max_iterations = 2
    /\ iteration = cfg.max_iterations
    /\ calls.revise = 2
    /\ critique # None

\* C29: a verify step changes the critique only: post, used_sources,
\* selected and iteration are as before; a draft or revise step changes
\* post, used_sources and iteration only; and from the selection to the end
\* of the run no step changes the selected documents, the fetched articles
\* or the company documents.
C29_StepsChangeOnlyTheirKeys ==
    [][/\ pc = "verify" =>
            /\ post' = post /\ used_sources' = used_sources
            /\ selected' = selected /\ iteration' = iteration
            /\ articles' = articles /\ company_articles' = company_articles
       /\ pc \in {"draft", "revise"} =>
            /\ critique' = critique
            /\ selected' = selected
            /\ articles' = articles /\ company_articles' = company_articles
       /\ pc \in {"draft", "verify", "revise", "END"} =>
            /\ selected' = selected
            /\ articles' = articles /\ company_articles' = company_articles
       /\ pc = "END" =>
            /\ post' = post /\ used_sources' = used_sources
            /\ critique' = critique /\ iteration' = iteration]_vars

\* C29 witness: a verify step has put a critique on a draft whose
\* used_sources are a part of the selection, and a revise step is next
C29_Witness ==
    /\ pc = "revise"
    /\ last.node = "verify"
    /\ critique = "fix it"
    /\ post # <<>>
    /\ used_sources # selected
    /\ used_sources = last.used_before
    /\ company_articles # <<>>

\* the keys of the records the region bucket holds
HeldKeys == {norm(agg.got[i].url) : i \in 1..Len(agg.got)}

\* C30: every key in the dedup set seen is the key of a record the region
\* bucket holds, so that a record gone through in an attempt that failed
\* part-way is not lost to a later attempt that returns its URL again.
C30_SeenKeysAreHeld ==
    agg.phase \in {"loop", "backoff", "done"} => agg.seen \subseteq HeldKeys

\* What holds of C30: every record of the bucket has its key in seen, and a
\* key of seen without a record was added by an attempt that raised.
Aggregator_HeldKeysAreSeen ==
    agg.phase \in {"loop", "backoff", "done"} =>
        /\ HeldKeys \subseteq agg.seen
        /\ agg.seen # HeldKeys => agg.failures >= 1

=============================================================================
